---- MODULE Spec2Model ----
(***************************************************************************)
(* A model of the TPC visual node editor: the argument walker, the socket  *)
(* projector, the value resolver and the code generator of src/engine, and *)
(* the graph state of src/App.tsx with the handlers that change it.        *)
(*                                                                         *)
(* Text is modelled as a sequence of tokens (a string over an alphabet of  *)
(* tokens): concatenation is \o, '' is <<>>.  A key such as "0_text" is    *)
(* <<"0", "_", "text">>, a socket id "node-0-0_text" is                    *)
(* <<"node", "-", "0", "-", "0", "_", "text">>.                            *)
(***************************************************************************)
EXTENDS Integers, Sequences, FiniteSets, TLC

VARIABLES graph, nextId, generatedCode, crashed, ops, queued, sync

vars == <<graph, nextId, generatedCode, crashed, ops, queued, sync>>

(***************************************************************************)
(* Strings                                                                 *)
(***************************************************************************)
Range(s) == {s[i] : i \in 1..Len(s)}

\* Array.prototype.join on an array of strings
RECURSIVE Join(_, _)
Join(parts, sep) ==
  IF Len(parts) = 0 THEN <<>>
  ELSE IF Len(parts) = 1 THEN parts[1]
  ELSE parts[1] \o sep \o Join(Tail(parts), sep)

\* Array.prototype.flat on an array of arrays
RECURSIVE Flat(_)
Flat(lists) == IF Len(lists) = 0 THEN <<>> ELSE lists[1] \o Flat(Tail(lists))

\* Array.prototype.filter
Filter(s, Keep(_)) ==
  LET F[i \in 0..Len(s)] ==
        IF i = 0 THEN <<>>
        ELSE IF Keep(s[i]) THEN Append(F[i - 1], s[i]) ELSE F[i - 1]
  IN F[Len(s)]

\* the positions at which pat occurs in s
Occurrences(s, pat) ==
  {i \in 1..(Len(s) - Len(pat) + 1) : SubSeq(s, i, i + Len(pat) - 1) = pat}

\* String.prototype.includes
Includes(s, pat) == Len(pat) = 0 \/ Occurrences(s, pat) # {}

\* String.prototype.startsWith / endsWith
StartsWith(s, pat) == Len(pat) <= Len(s) /\ SubSeq(s, 1, Len(pat)) = pat

EndsWith(s, pat) ==
  Len(pat) <= Len(s) /\ SubSeq(s, Len(s) - Len(pat) + 1, Len(s)) = pat

\* String.prototype.replace(pat, '') : the first occurrence only
RemoveFirst(s, pat) ==
  IF Len(pat) = 0 \/ Occurrences(s, pat) = {} THEN s
  ELSE LET i == CHOOSE j \in Occurrences(s, pat) :
                  \A k \in Occurrences(s, pat) : j <= k
       IN SubSeq(s, 1, i - 1) \o SubSeq(s, i + Len(pat), Len(s))

Us == <<"_">>
Dash == <<"-">>
NL == <<"\n">>
Quote == <<"\"">>
Ix(i) == <<ToString(i)>>

(***************************************************************************)
(* JavaScript values held in a node's value map                            *)
(***************************************************************************)
Undef == [t |-> "undef", s |-> <<>>, n |-> 0, b |-> FALSE]
StrV(x) == [t |-> "str", s |-> x, n |-> 0, b |-> FALSE]
NumV(k) == [t |-> "num", s |-> <<>>, n |-> k, b |-> FALSE]
BoolV(x) == [t |-> "bool", s |-> <<>>, n |-> 0, b |-> x]
\* the RangeError a recursion without end raises, carried as a value
ThrewV == [t |-> "threw", s |-> <<>>, n |-> 0, b |-> FALSE]

ThrewTok == "RangeError: Maximum call stack size exceeded"
ThrewText == <<ThrewTok>>

\* !!v
Truthy(v) ==
  CASE v.t = "str" -> v.s # <<>>
    [] v.t = "num" -> v.n # 0
    [] v.t = "bool" -> v.b
    [] OTHER -> FALSE

\* String(v)
ToStr(v) ==
  CASE v.t = "str" -> v.s
    [] v.t = "num" -> Ix(v.n)
    [] v.t = "bool" -> IF v.b THEN <<"true">> ELSE <<"false">>
    [] v.t = "threw" -> ThrewText
    [] OTHER -> <<"undefined">>

\* node.values[key]
ValGet(values, key) == IF key \in DOMAIN values THEN values[key] ELSE Undef

\* getValue(`${key}_count`) || 0, used as a loop bound
CountOf(v) == IF v.t = "num" THEN v.n ELSE 0

(***************************************************************************)
(* Grammar nodes (the schema of a command's arguments)                     *)
(***************************************************************************)
NoArg ==
  [type |-> "", name |-> <<>>, value |-> <<>>, label |-> <<>>,
   optional |-> FALSE, repeatable |-> FALSE,
   hasContent |-> FALSE, content |-> <<>>, options |-> <<>>,
   arguments |-> <<>>, array_parameter |-> <<>>,
   prefix |-> <<>>, is_identifier |-> FALSE, repeatable_joiner |-> <<>>,
   separator |-> <<>>, delimiters |-> <<>>]

Prim(type, name) == [NoArg EXCEPT !.type = type, !.name = name]
Kw(value) == [NoArg EXCEPT !.type = "keyword", !.value = value]
Opt(a) == [a EXCEPT !.optional = TRUE]
Rep(a) == [a EXCEPT !.repeatable = TRUE]
Group(content) ==
  [NoArg EXCEPT !.type = "group", !.hasContent = TRUE, !.content = content]
Choice(name, options) ==
  [NoArg EXCEPT !.type = "choice", !.name = name, !.options = options]
Block(name, content) ==
  [NoArg EXCEPT !.type = "block", !.name = name, !.hasContent = TRUE,
                !.content = content]
ExecBlock(name) == [NoArg EXCEPT !.type = "block", !.name = name]
Sub(name, ap, arguments) ==
  [NoArg EXCEPT !.type = "subcommand", !.name = name, !.array_parameter = ap,
                !.arguments = arguments]
Arr(name, item) ==
  [NoArg EXCEPT !.type = "Array", !.name = name, !.hasContent = TRUE,
                !.content = <<item>>]
BaseArg(name, ap) ==
  [NoArg EXCEPT !.type = "base", !.name = name, !.array_parameter = ap]

NoneSentinel == <<"__none__">>
HiddenMarker == <<".hidden">>
ArrayParam == <<"array", "_", "param">>
ExecIn == <<"exec", "_", "in">>
ExecOut == <<"exec", "_", "out">>
EvalCommand == <<"Evaluate JS Code">>

\* getIdentifier
FirstKeywordValue(kws) == IF Len(kws) > 0 THEN kws[1].value ELSE <<>>

GetIdentifier(item) ==
  IF /\ item.type = "group" /\ item.hasContent /\ Len(item.content) > 0
     /\ FirstKeywordValue(Filter(item.content,
                                 LAMBDA c : c.type = "keyword")) # <<>>
  THEN FirstKeywordValue(Filter(item.content, LAMBDA c : c.type = "keyword"))
  ELSE IF item.name # <<>> THEN item.name
  ELSE IF item.value # <<>> THEN item.value
  ELSE IF item.type # "" THEN <<item.type>>
  ELSE <<>>

(***************************************************************************)
(* The command definitions (the data files, an input of the program)       *)
(***************************************************************************)
NoDef ==
  [command |-> <<>>, hasBase |-> FALSE, base |-> <<>>, subcommand |-> <<>>,
   array_parameter |-> <<>>, arguments |-> <<>>, sourceFile |-> <<>>]

Cmd(command, dir, arguments) ==
  [NoDef EXCEPT !.command = command, !.arguments = arguments,
                !.sourceFile = <<"data", dir, "cmd.json">>]

EventDir == "/Event_Commands/"
UtilityDir == "/Utility/"

JsonDefs ==
  [Show |-> Cmd(<<"Show">>, EventDir, <<Prim("String", <<"text">>)>>),
   Loop |-> Cmd(<<"Loop">>, EventDir, <<ExecBlock(<<"do">>)>>),
   Eval |-> Cmd(EvalCommand, UtilityDir,
                <<Rep([Group(<<Prim("String", <<"name">>),
                                 Prim("String", <<"value">>)>>)
                         EXCEPT !.name = <<"variable">>]),
                  Prim("JSCode", <<"code">>)>>),
   Wait |-> Cmd(<<"Wait">>, EventDir,
                <<Prim("Numeric", <<>>), Kw(<<"frames">>)>>),
   Run |-> Cmd(<<"Run">>, EventDir,
               <<Opt(Kw(<<"fast">>)), Opt(Prim("String", <<"msg">>)),
                 Opt(Kw(HiddenMarker))>>),
   Pick |-> Cmd(<<"Pick">>, EventDir,
                <<Opt(Choice(<<"mode">>,
                             <<Group(<<Kw(<<"a">>),
                                       Prim("String", <<"value">>)>>),
                               Group(<<Kw(<<"b">>),
                                       Prim("String", <<"value">>)>>)>>)),
                  Prim("String", <<"tail">>)>>),
   Say |-> Cmd(<<"Say">>, EventDir, <<Rep(Prim("String", <<"line">>))>>),
   Opts |-> Cmd(<<"Opts">>, EventDir,
                <<Opt(Group(<<Kw(<<"with">>), Prim("String", <<"item">>)>>)),
                  Choice(<<"kind">>,
                         <<Group(<<Kw(<<"x">>), Prim("String", <<"v">>)>>),
                           Group(<<Kw(<<"y">>)>>)>>),
                  Opt(Prim("String", <<"note">>))>>),
   Code |-> Cmd(<<"Code">>, EventDir, <<Rep(Prim("RawCode", <<"code">>))>>),
   Move |-> Cmd(<<"Move">>, EventDir,
                <<Sub(<<"MoveTo">>, <<Prim("Numeric", <<"xy">>)>>,
                      <<Block(<<>>, <<Prim("String", <<"child">>)>>)>>),
                  Sub(<<"Call">>, <<>>,
                      <<Prim("String", <<"a">>), Prim("Numeric", <<"b">>)>>),
                  Sub(<<"Stop">>, <<>>, <<>>)>>),
   List |-> Cmd(<<"List">>, EventDir,
                <<Arr(<<"items">>, Prim("String", <<"item">>)),
                  Opt(Rep(Prim("String", <<"tag">>))),
                  Rep(Sub(<<"At">>, <<>>, <<Prim("Numeric", <<"n">>)>>)),
                  Rep([Group(<<Prim("String", <<"k">>)>>)
                         EXCEPT !.name = <<"pair">>])>>),
   Pic |-> [Cmd(<<"Pic">>, EventDir,
                <<Prim("Numeric", <<"x">>), Kw(<<"now">>), Kw(HiddenMarker)>>)
              EXCEPT !.hasBase = TRUE, !.base = <<"@pic">>,
                     !.array_parameter = <<Prim("Numeric", <<"id">>)>>,
                     !.subcommand = <<".show">>],
   Tint |-> [Cmd(<<"Tint">>, EventDir, <<>>)
               EXCEPT !.array_parameter = <<Prim("Numeric", <<"id">>)>>],
   Bare |-> [Cmd(<<"Bare">>, EventDir,
                 <<Prim("String", <<"text">>), Rep(Kw(<<"again">>))>>)
               EXCEPT !.hasBase = TRUE],
   Calc |-> Cmd(<<"Calc">>, EventDir,
                <<Prim("String", <<"label">>), Prim("JSCode", <<"expr">>)>>),
   Fade |-> [Cmd(<<"Fade">>, EventDir,
                 <<Prim("Numeric", <<"x">>),
                   Sub(<<"Go">>, <<Opt(Prim("Numeric", <<"id">>))>>,
                       <<Prim("String", <<"a">>)>>)>>)
               EXCEPT !.array_parameter = <<Opt(Prim("Numeric", <<"id">>))>>]]

\* node.definition.nodeDef
NodeDef(node) == JsonDefs[node.type]

(***************************************************************************)
(* Results of a walk: null is <<>>, a result r is <<r>>                    *)
(***************************************************************************)
Null == <<>>
Just(r) == <<r>>

PrimTypes ==
  {"String", "Numeric", "Variable", "Switch", "Condition", "Expression",
   "Value", "Numeric..Numeric"}

\* the consumers of the walker and the handlers each registers
SocketHandlers ==
  {"onPrimitive", "onExecBlock", "onRepeatable", "onChoice", "onSubcommand",
   "onBlock", "onGroup", "onArray", "onBase"}

CodeHandlers ==
  {"onPrimitive", "onKeyword", "onChoice", "onSubcommand", "onBlock",
   "onExecBlock", "onGroup", "onArray", "onBase", "onRepeatable"}

UiHandlers ==
  {"onOptional", "onRepeatable", "onPrimitive", "onKeyword", "onChoice",
   "onBlock", "onExecBlock", "onSubcommand", "onGroup", "onArray", "onBase"}

\* mode "reads" is the code generator's walk observed at its value resolver:
\* the handlers and the value lookup of the code generator, each result being
\* the keys at which onPrimitive calls getSocketValue(node, key)
HasHandler(mode, h) ==
  CASE mode = "sockets" -> h \in SocketHandlers
    [] mode \in {"code", "reads"} -> h \in CodeHandlers
    [] mode = "ui" -> h \in UiHandlers

(***************************************************************************)
(* The graph: nodes and connections                                        *)
(***************************************************************************)
\* Map.get after a Map filled in list order: the last entry of the key
LastOf(hits) == IF Len(hits) = 0 THEN Null ELSE Just(hits[Len(hits)])

\* nodeMap.get(id): the last node of the list with that id, or nothing
NodeMapGet(g, id) == LastOf(Filter(g.nodes, LAMBDA n : n.id = id))

\* connectionsFrom.get(socketId): the connections leaving a socket, in order
ConnectionsFrom(g, socketId) ==
  Filter(g.connections, LAMBDA c : c.fromSocket = socketId)

\* connectionsTo.get(socketId): the last connection entering a socket
ConnectionsTo(g, socketId) ==
  LastOf(Filter(g.connections, LAMBDA c : c.toSocket = socketId))

RECURSIVE GetSocketValue(_, _, _, _)

\* getSocketValue reading the raw code of an Evaluate JS Code source
ThroughConnectionRawCode(g, node, valueKey, vs, connection) ==
  LET sourceNode == IF connection = Null THEN Null
                    ELSE NodeMapGet(g, connection[1].fromNode)
      sourceSocketKey == RemoveFirst(connection[1].fromSocket,
                                     connection[1].fromNode \o Dash)
  IN IF connection # Null /\ sourceNode # Null
     THEN GetSocketValue(g, sourceNode[1], sourceSocketKey,
                         vs \cup {<<node, valueKey>>})
     ELSE ValGet(node.values, valueKey)

\* getSocketValue once connectionsTo.get(socketId) is known
ThroughConnection(g, node, valueKey, vs, connection) ==
  LET sourceNode == IF connection = Null THEN Null
                    ELSE NodeMapGet(g, connection[1].fromNode)
      sourceSocketKey == RemoveFirst(connection[1].fromSocket,
                                     connection[1].fromNode \o Dash)
  IN IF connection # Null /\ sourceNode # Null
     THEN IF NodeDef(sourceNode[1]).command = EvalCommand
          THEN ValGet(sourceNode[1].values,
                      sourceSocketKey \o Us \o <<"result">>)
          ELSE GetSocketValue(g, sourceNode[1], sourceSocketKey,
                              vs \cup {<<node, valueKey>>})
     ELSE ValGet(node.values, valueKey)

\* the value resolver of the code generator; vs holds the calls in progress,
\* and a call entered again while in progress never returns: the recursion
\* ends in a RangeError
GetSocketValue(g, node, valueKey, vs) ==
  IF <<node, valueKey>> \in vs THEN ThrewV
  ELSE ThroughConnection(g, node, valueKey, vs,
                         ConnectionsTo(g, node.id \o Dash \o valueKey))

(***************************************************************************)
(* Socket Projector: the handlers of generateNodeSockets                   *)
(***************************************************************************)
Socket(nodeId, key, label, io, type, dataType) ==
  [id |-> nodeId \o Dash \o key, name |-> key, label |-> label, io |-> io,
   type |-> type, dataType |-> dataType, nodeId |-> nodeId]

\* arg.label || arg.name || fallback
LabelOf(arg, fallback) ==
  IF arg.label # <<>> THEN arg.label
  ELSE IF arg.name # <<>> THEN arg.name ELSE fallback

\* onPrimitive naming the sockets by the name of the argument
SockOnPrimitiveByName(node, arg, key) ==
  <<Socket(node.id, arg.name, LabelOf(arg, <<arg.type>>), "input", "data",
           arg.type),
    Socket(node.id, arg.name, LabelOf(arg, <<arg.type>>), "output", "data",
           arg.type)>>

SockOnPrimitive(node, arg, key) ==
  IF arg.type = "JSCode"
  THEN <<Socket(node.id, key, LabelOf(arg, <<"JS Code">>), "input", "data",
                "Default"),
         Socket(node.id, key, <<"Result">>, "output", "data", "Default")>>
  ELSE IF arg.type = "RawCode"
  THEN <<Socket(node.id, key, LabelOf(arg, <<"Input">>), "input", "data",
                "Default"),
         Socket(node.id, key, <<"Output">>, "output", "data", "Default")>>
  ELSE <<Socket(node.id, key, LabelOf(arg, <<arg.type>>), "input", "data",
                arg.type),
         Socket(node.id, key, LabelOf(arg, <<arg.type>>), "output", "data",
                arg.type)>>

SockOnExecBlock(node, key) ==
  <<Socket(node.id, key, <<"do">>, "output", "exec", "Exec"),
    Socket(node.id, key, <<"do">>, "input", "exec", "Exec")>>

SockOnRepeatable(arg, items) ==
  LET allSockets == Flat(items)
      inputs == Filter(allSockets, LAMBDA x : x.io = "input")
      outputs == Filter(allSockets, LAMBDA x : x.io = "output")
  IN IF arg.type = "RawCode"
     THEN [i \in 1..Len(inputs) |->
             [inputs[i] EXCEPT !.label = <<"Code ", ToString(i), " In">>]]
          \o [i \in 1..Len(outputs) |->
             [outputs[i] EXCEPT !.label = <<"Code ", ToString(i), " Out">>]]
     ELSE allSockets

(***************************************************************************)
(* Argument panel: the handlers of ArgumentRenderer, a node's panel being  *)
(* the list of the controls it shows                                       *)
(***************************************************************************)
Control(kind, key, options) == [kind |-> kind, key |-> key, options |-> options]

InputTypes ==
  {"String", "Condition", "Expression", "Value", "Variable", "Switch",
   "Numeric", "Numeric..Numeric"}

UiOnOptional(node, arg, key, isEnabled, content) ==
  LET enabledKey == IF arg.type = "keyword" THEN key
                    ELSE key \o Us \o <<"enabled">>
  IN (IF ValGet(node.values, enabledKey) = Undef
      THEN <<Control("defaultFlag", enabledKey, <<>>)>> ELSE <<>>)
     \o <<Control("checkbox", enabledKey, <<>>)>>
     \o (IF isEnabled /\ content # Null THEN content[1] ELSE <<>>)

UiOnRepeatable(key, items, count) ==
  Flat(items) \o <<Control("add", key, <<>>)>>
  \o (IF count > 0 THEN <<Control("remove", key, <<>>)>> ELSE <<>>)

UiOnPrimitive(g, node, arg, key) ==
  IF ConnectionsTo(g, node.id \o Dash \o key) = Null /\ arg.type \in InputTypes
  THEN <<Control("input", key, <<>>)>>
  ELSE <<>>

UiOnChoice(node, arg, key, childResult) ==
  LET ids == [i \in 1..Len(arg.options) |-> GetIdentifier(arg.options[i])]
      defaultValue == IF arg.optional THEN NoneSentinel
                      ELSE IF Len(ids) > 0 THEN ids[1] ELSE <<>>
  IN (IF ValGet(node.values, key) = Undef
      THEN <<Control("defaultChoice", key, <<defaultValue>>)>> ELSE <<>>)
     \o <<Control("select", key,
                  (IF arg.optional THEN <<NoneSentinel>> ELSE <<>>) \o ids)>>
     \o (IF childResult # Null THEN childResult[1] ELSE <<>>)

UiOnArray(key, items) ==
  Flat(items) \o <<Control("add", key, <<>>)>>
  \o (IF Len(items) > 0 THEN <<Control("remove", key, <<>>)>> ELSE <<>>)

(***************************************************************************)
(* Evaluation of embedded code: new Function(`return ${code}`)(), on the   *)
(* code texts of the model                                                 *)
(***************************************************************************)
EvalJS(code) ==
  CASE code = <<"1", "+", "1">> -> [ok |-> TRUE, s |-> <<"2">>]
    [] code = <<"2">> -> [ok |-> TRUE, s |-> <<"2">>]
    [] code = <<"7">> -> [ok |-> TRUE, s |-> <<"7">>]
    [] Len(code) > 0 /\ code[1] = "/* Error: " -> [ok |-> TRUE, s |-> <<>>]
    [] code = <<"undefined">> -> [ok |-> TRUE, s |-> <<>>]
    [] code = <<"1", "+">> -> [ok |-> FALSE, s |-> <<"Unexpected token '}'">>]
    [] OTHER -> [ok |-> FALSE, s |-> code \o <<" is not defined">>]

(***************************************************************************)
(* Code Generator: the handlers of codeGenHandlers(indent)                 *)
(***************************************************************************)
Deeper(indent) == indent \o <<"  ">>

\* onPrimitive once getSocketValue(node, key) is known
PrimitiveCode(node, arg, val) ==
  LET finalVal == IF val = Undef THEN <<>> ELSE ToStr(val)
  IN IF arg.type = "JSCode"
     THEN IF NodeDef(node).command = EvalCommand THEN Null
          ELSE IF val = ThrewV THEN Just(ThrewText)
          ELSE IF ~Truthy(val) THEN Null
          ELSE IF EvalJS(ToStr(val)).ok THEN Just(EvalJS(ToStr(val)).s)
          ELSE Just(<<"/* Error evaluating JS: ">> \o EvalJS(ToStr(val)).s
                    \o <<" */">>)
     ELSE IF val = ThrewV THEN Just(ThrewText)
     ELSE IF arg.optional /\ (val = Undef \/ val = StrV(<<>>)) THEN Null
     ELSE IF arg.prefix # <<>> THEN Just(arg.prefix \o finalVal)
     ELSE IF arg.is_identifier THEN Just(finalVal)
     ELSE IF arg.type = "String" THEN Just(Quote \o finalVal \o Quote)
     ELSE Just(finalVal)

CodeOnPrimitive(g, node, arg, key) ==
  PrimitiveCode(node, arg, GetSocketValue(g, node, key, {}))

CodeOnKeyword(arg) == IF arg.value = HiddenMarker THEN Null ELSE Just(arg.value)

\* onSubcommand putting the arguments in parentheses whatever they are
CodeOnSubcommandParenthesised(arg, childResults) ==
  LET shifted == arg.array_parameter # <<>> /\ Len(childResults) > 0
      arrayParamValue == IF shifted THEN childResults[1] ELSE <<>>
      children == IF shifted THEN Tail(childResults) ELSE childResults
  IN arg.name
     \o (IF arrayParamValue # <<>>
         THEN <<"[">> \o arrayParamValue \o <<"]">> ELSE <<>>)
     \o (IF Len(children) = 0 THEN <<>>
         ELSE <<"(">> \o Join(children, <<", ">>) \o <<")">>)

\* onSubcommand
CodeOnSubcommand(arg, childResults) ==
  LET shifted == arg.array_parameter # <<>> /\ Len(childResults) > 0
      arrayParamValue == IF shifted THEN childResults[1] ELSE <<>>
      children == IF arg.array_parameter # <<>> /\ Len(childResults) > 0
                  THEN Tail(childResults) ELSE childResults
      hasBlock == \E i \in 1..Len(arg.arguments) :
                     arg.arguments[i].type = "block"
      argsString == Join(children, IF hasBlock THEN <<" ">> ELSE <<", ">>)
  IN arg.name
     \o (IF arrayParamValue # <<>>
         THEN <<"[">> \o arrayParamValue \o <<"]">> ELSE <<>>)
     \o (IF Len(children) = 0 THEN <<>>
         ELSE IF hasBlock THEN <<" ">> \o argsString
         ELSE <<"(">> \o argsString \o <<")">>)

CodeOnBlock(arg, childResults, indent) ==
  LET namePart == IF arg.name # <<>> THEN arg.name \o <<" ">> ELSE <<>>
      blockContent == Join(childResults, NL \o Deeper(indent))
  IN IF blockContent # <<>>
     THEN namePart \o <<"{">> \o NL \o Deeper(indent) \o blockContent
          \o NL \o indent \o <<"}">>
     ELSE namePart \o <<"{}">>

CodeOnArray(arg, itemResults) ==
  LET separator == IF arg.separator # <<>> THEN arg.separator ELSE <<", ">>
      delims == IF arg.delimiters # <<>> THEN arg.delimiters
                ELSE <<(<<"[">>), (<<"]">>)>>
  IN delims[1] \o Join(itemResults, separator) \o delims[2]

CodeOnBase(arg, arrayParamResult) ==
  arg.name
  \o (IF arg.array_parameter # <<>> /\ arrayParamResult # Null
         /\ arrayParamResult[1] # <<>>
      THEN <<"[">> \o arrayParamResult[1] \o <<"]">> ELSE <<>>)

CodeOnRepeatable(arg, items, indent) ==
  LET hasBlockInArgs ==
        \/ arg.type = "block"
        \/ arg.type = "subcommand"
           /\ \E i \in 1..Len(arg.arguments) : arg.arguments[i].type = "block"
        \/ arg.type = "group" /\ arg.hasContent
           /\ \E i \in 1..Len(arg.content) : arg.content[i].type = "block"
      joiner == IF arg.repeatable_joiner = <<>>
                THEN (IF hasBlockInArgs THEN NL \o indent ELSE <<" ">>)
                ELSE IF arg.repeatable_joiner = NL THEN NL \o indent
                ELSE arg.repeatable_joiner
  IN Join(items, joiner)

(***************************************************************************)
(* Argument Walker                                                         *)
(***************************************************************************)
EmptyGraph == [nodes |-> <<>>, connections |-> <<>>]

\* the state of the synchronisation with React Flow: its nodes and edges,
\* useNodesState([]) and useEdgesState([]); which of the graph and the flow
\* has changed since the sync effects ran; and, as history, the graph the
\* last mutation made and whether it agreed with the edges of the flow
NoSync ==
  [nodes |-> <<>>, edges |-> <<>>, due |-> {}, asked |-> EmptyGraph,
   agreed |-> TRUE]

\* the value lookup of a consumer: the code generator resolves through the
\* connections, the other consumers read the node's own value map
GetValue(mode, g, node, key) ==
  IF mode \in {"code", "reads"} THEN GetSocketValue(g, node, key, {})
  ELSE ValGet(node.values, key)

RECURSIVE Walk(_, _, _, _, _, _, _)
RECURSIVE Traverse(_, _, _, _)

\* the node of the last connection of the list instead of the first
LastTarget(g, conns) ==
  IF Len(conns) > 0 THEN NodeMapGet(g, conns[Len(conns)].toNode) ELSE Null

\* nodeMap.get(conns[0].toNode) of a list of connections
FirstTarget(g, conns) ==
  IF Len(conns) > 0 THEN NodeMapGet(g, conns[1].toNode) ELSE Null

\* onExecBlock of the code generator once the next node is known
BlockCode(g, nextNode, indent, ts) ==
  IF nextNode # Null
  THEN <<"{">> \o NL \o Traverse(g, nextNode[1], Deeper(indent), ts)
       \o NL \o indent \o <<"}">>
  ELSE <<"{}">>

\* onExecBlock of the code generator
CodeOnExecBlock(g, node, key, indent, ts) ==
  BlockCode(g, FirstTarget(g, ConnectionsFrom(g, node.id \o Dash \o key)),
            indent, ts)

\* handlers.onX(...): the handler of the consumer that walks
OnPrimitive(mode, g, node, arg, key) ==
  CASE mode = "sockets" -> Just(SockOnPrimitive(node, arg, key))
    [] mode = "code" -> CodeOnPrimitive(g, node, arg, key)
    [] mode = "reads" -> Just(<<key>>)
    [] mode = "ui" -> Just(UiOnPrimitive(g, node, arg, key))

OnKeyword(mode, arg) == IF mode = "code" THEN CodeOnKeyword(arg) ELSE Null

OnRepeatable(mode, arg, key, items, count, indent) ==
  CASE mode = "sockets" -> Just(SockOnRepeatable(arg, items))
    [] mode = "code" -> Just(CodeOnRepeatable(arg, items, indent))
    [] mode = "reads" -> Just(Flat(items))
    [] mode = "ui" -> Just(UiOnRepeatable(key, items, count))

OnChoice(mode, node, arg, key, childResult) ==
  CASE mode \in {"sockets", "reads"} ->
         Just(IF childResult = Null THEN <<>> ELSE childResult[1])
    [] mode = "code" -> childResult
    [] mode = "ui" -> Just(UiOnChoice(node, arg, key, childResult))

OnBlock(mode, arg, childResults, indent) ==
  IF mode = "code" THEN Just(CodeOnBlock(arg, childResults, indent))
  ELSE Just(Flat(childResults))

OnExecBlock(mode, g, node, key, indent, ts) ==
  CASE mode = "sockets" -> Just(SockOnExecBlock(node, key))
    [] mode = "code" -> Just(CodeOnExecBlock(g, node, key, indent, ts))
    [] mode \in {"ui", "reads"} -> Just(<<>>)

OnSubcommand(mode, arg, childResults) ==
  IF mode = "code" THEN Just(CodeOnSubcommand(arg, childResults))
  ELSE Just(Flat(childResults))

OnGroup(mode, childResults) ==
  IF mode = "code" THEN Just(Join(childResults, <<" ">>))
  ELSE Just(Flat(childResults))

OnArray(mode, arg, key, itemResults) ==
  CASE mode \in {"sockets", "reads"} -> Just(Flat(itemResults))
    [] mode = "code" -> Just(CodeOnArray(arg, itemResults))
    [] mode = "ui" -> Just(UiOnArray(key, itemResults))

OnBase(mode, arg, arrayParamResult) ==
  IF mode = "code" THEN Just(CodeOnBase(arg, arrayParamResult))
  ELSE Just(IF arrayParamResult = Null THEN <<>> ELSE arrayParamResult[1])

\* the option to walk, the first option standing in when none is selected
ChosenOptionOrFirst(options, selectedValue) ==
  LET selectedOption ==
        Filter(options, LAMBDA o : selectedValue = StrV(GetIdentifier(o)))
  IN IF Len(selectedOption) > 0 /\ selectedValue # StrV(NoneSentinel)
     THEN <<selectedOption[1]>>
     ELSE IF Len(options) > 0 THEN <<options[1]>> ELSE <<>>

\* the option the walker descends into, as a list of at most one option:
\* selectedOption = arg.options?.find(o => getIdentifier(o) === selectedValue)
\* when there is one and selectedValue !== '__none__'
ChosenOption(options, selectedValue) ==
  LET selectedOption ==
        Filter(options, LAMBDA o : selectedValue = StrV(GetIdentifier(o)))
  IN IF Len(selectedOption) > 0 /\ selectedValue # StrV(NoneSentinel)
     THEN <<selectedOption[1]>> ELSE <<>>

\* the enabled key without the case of the keyword
EnabledKeySuffixed(arg, key) == key \o Us \o <<"enabled">>

EnabledKey(arg, key) ==
  IF arg.type = "keyword" THEN key ELSE key \o Us \o <<"enabled">>

\* the body of _walk, given key and the values getValue returns for the
\* enabled flag, the count and the key itself
WalkKeyed(mode, g, node, arg, prefix, key, enabledVal, countVal, selectedValue, indent, ts) ==
  LET W(a, p) == Walk(mode, g, node, a, p, indent, ts)
      Each(list, P(_)) == Flat([i \in 1..Len(list) |-> W(list[i], P(i - 1))])
      Items(item) ==
        Flat([i \in 1..CountOf(countVal) |->
                W(item, key \o Us \o Ix(i - 1) \o Us)])
      flagged == arg.optional /\ arg.type # "choice"
      chosen == ChosenOption(arg.options, selectedValue)
      arrayParam ==
        IF arg.array_parameter # <<>>
        THEN W([arg.array_parameter[1] EXCEPT !.name = ArrayParam], key \o Us)
        ELSE Null
  IN
  IF flagged /\ enabledVal = ThrewV THEN Just(ThrewText)
  ELSE IF flagged /\ HasHandler(mode, "onOptional")
  THEN Just(UiOnOptional(node, arg, key, Truthy(enabledVal),
                         IF Truthy(enabledVal)
                         THEN W([arg EXCEPT !.optional = FALSE], prefix)
                         ELSE Null))
  ELSE IF flagged /\ ~Truthy(enabledVal) THEN Null
  ELSE IF arg.repeatable /\ HasHandler(mode, "onRepeatable")
  THEN IF countVal = ThrewV THEN Just(ThrewText)
       ELSE OnRepeatable(mode, arg, key,
                         Items([arg EXCEPT !.repeatable = FALSE,
                                           !.optional = FALSE]),
                         CountOf(countVal), indent)
  ELSE CASE arg.type \in PrimTypes ->
              IF HasHandler(mode, "onPrimitive")
              THEN OnPrimitive(mode, g, node, arg, key) ELSE Null
         [] arg.type \in {"assignment", "keyword"} ->
              IF HasHandler(mode, "onKeyword") THEN OnKeyword(mode, arg)
              ELSE Null
         [] arg.type = "choice" ->
              IF ~HasHandler(mode, "onChoice") THEN Null
              ELSE IF selectedValue = ThrewV THEN Just(ThrewText)
              ELSE OnChoice(mode, node, arg, key,
                            IF Len(chosen) > 0
                            THEN W([chosen[1] EXCEPT
                                      !.name = GetIdentifier(chosen[1])],
                                   key \o Us)
                            ELSE Null)
         [] arg.type = "block" /\ arg.hasContent ->
              IF ~HasHandler(mode, "onBlock") THEN Null
              ELSE OnBlock(mode, arg,
                           Each(arg.content,
                                LAMBDA i : key \o Us \o Ix(i) \o Us),
                           indent)
         [] arg.type = "block" /\ ~arg.hasContent ->
              IF ~HasHandler(mode, "onExecBlock") THEN Null
              ELSE OnExecBlock(mode, g, node, key, indent, ts)
         [] arg.type = "subcommand" ->
              IF ~HasHandler(mode, "onSubcommand") THEN Null
              ELSE OnSubcommand(mode, arg,
                                arrayParam
                                \o Each(arg.arguments,
                                        LAMBDA i : key \o Us \o Ix(i) \o Us))
         [] arg.type = "group" ->
              IF ~(HasHandler(mode, "onGroup") /\ arg.hasContent) THEN Null
              ELSE OnGroup(mode, Each(arg.content,
                                      LAMBDA i : prefix \o Ix(i) \o Us))
         [] arg.type = "Array" ->
              IF HasHandler(mode, "onArray") /\ arg.hasContent
              THEN IF countVal = ThrewV THEN Just(ThrewText)
                   ELSE OnArray(mode, arg, key,
                                Items([arg.content[1] EXCEPT
                                         !.repeatable = FALSE]))
              ELSE IF HasHandler(mode, "onPrimitive")
              THEN OnPrimitive(mode, g, node,
                               [arg EXCEPT
                                  !.type = "String",
                                  !.name = IF arg.name # <<>> THEN arg.name
                                           ELSE <<"array">>],
                               key)
              ELSE Null
         [] arg.type = "base" ->
              IF ~HasHandler(mode, "onBase") THEN Null
              ELSE OnBase(mode, arg, arrayParam)
         [] OTHER -> Null

\* _walk: one grammar node under a key prefix; ts holds the traverse calls
\* in progress
Walk(mode, g, node, arg, prefix, indent, ts) ==
  IF GetIdentifier(arg) = <<>> /\ arg.type \notin {"group", "block", "Array"}
  THEN Null
  ELSE WalkKeyed(mode, g, node, arg, prefix, prefix \o GetIdentifier(arg),
                 GetValue(mode, g, node,
                          EnabledKey(arg, prefix \o GetIdentifier(arg))),
                 GetValue(mode, g, node,
                          prefix \o GetIdentifier(arg) \o Us \o <<"count">>),
                 GetValue(mode, g, node, prefix \o GetIdentifier(arg)),
                 indent, ts)

\* argumentWalker: the array parameter of the command, then its arguments
ArgumentWalker(mode, g, node, indent, ts) ==
  (IF NodeDef(node).array_parameter # <<>>
   THEN Walk(mode, g, node,
             [NodeDef(node).array_parameter[1] EXCEPT !.name = ArrayParam],
             <<>>, indent, ts)
   ELSE <<>>)
  \o Flat([i \in 1..Len(NodeDef(node).arguments) |->
             Walk(mode, g, node, NodeDef(node).arguments[i], Ix(i - 1) \o Us,
                  indent, ts)])

(***************************************************************************)
(* Code Generator: one node's line, a flow chain, the document             *)
(***************************************************************************)
NonEmpty(x) == x # <<>>

\* buildNodeCode appending the subcommand suffix before the array parameter
CodeLineSuffixFirst(def, indent, argParts) ==
  LET shifted == def.array_parameter # <<>> /\ Len(argParts) > 0
      arrayParamValue == IF shifted THEN argParts[1] ELSE <<>>
      rest == IF shifted THEN Tail(argParts) ELSE argParts
      head == (IF def.hasBase THEN def.base ELSE def.command)
              \o def.subcommand
              \o (IF arrayParamValue # <<>>
                  THEN <<"[">> \o arrayParamValue \o <<"]">> ELSE <<>>)
      argString == Join(Filter(rest, NonEmpty), <<" ">>)
  IN indent \o (IF head # <<>> /\ argString # <<>>
                THEN head \o <<" ">> \o argString
                ELSE IF argString # <<>> THEN argString ELSE head)

\* buildNodeCode once the walker has returned argParts
CodeLine(def, indent, argParts) ==
  LET shifted == def.array_parameter # <<>> /\ Len(argParts) > 0
      arrayParamValue == IF shifted THEN argParts[1] ELSE <<>>
      rest == IF shifted THEN Tail(argParts) ELSE argParts
      head == (IF def.hasBase THEN def.base ELSE def.command)
              \o (IF arrayParamValue # <<>>
                  THEN <<"[">> \o arrayParamValue \o <<"]">> ELSE <<>>)
              \o def.subcommand
      argString == Join(Filter(rest, NonEmpty), <<" ">>)
  IN indent \o (IF head # <<>> /\ argString # <<>>
                THEN head \o <<" ">> \o argString
                ELSE IF argString # <<>> THEN argString ELSE head)

\* buildNodeCode rendering the arguments of an expanded node only
BuildNodeCodeOfExpanded(g, node, indent, ts) ==
  IF NodeDef(node).command = EvalCommand THEN <<>>
  ELSE CodeLine(NodeDef(node), indent,
                IF node.isExpanded
                THEN ArgumentWalker("code", g, node, indent, ts) ELSE <<>>)

\* buildNodeCode
BuildNodeCode(g, node, indent, ts) ==
  IF NodeDef(node).command = EvalCommand THEN <<>>
  ELSE CodeLine(NodeDef(node), indent,
                ArgumentWalker("code", g, node, indent, ts))

\* the connections leaving the exec_out socket of the stored sockets
ExecOutConns(g, execOutSockets) ==
  IF Len(execOutSockets) > 0 THEN ConnectionsFrom(g, execOutSockets[1].id)
  ELSE <<>>

\* traverse(nextNode, indent) when there is a next node
NextCode(g, nextNode, indent, ts) ==
  IF nextNode # Null THEN Traverse(g, nextNode[1], indent, ts) ELSE <<>>

\* the end of traverse with the line of a hidden node left in as an empty line
ChainCodeKeepingHidden(isVisible, currentNodeCode, nextCode) ==
  IF ~isVisible THEN NL \o nextCode
  ELSE IF currentNodeCode # <<>> /\ nextCode # <<>>
  THEN currentNodeCode \o NL \o nextCode
  ELSE IF currentNodeCode # <<>> THEN currentNodeCode ELSE nextCode

\* the end of traverse: the line of the node joined to the rest of the chain
ChainCode(isVisible, currentNodeCode, nextCode) ==
  IF ~isVisible THEN nextCode
  ELSE IF currentNodeCode # <<>> /\ nextCode # <<>>
  THEN currentNodeCode \o NL \o nextCode
  ELSE IF currentNodeCode # <<>> THEN currentNodeCode ELSE nextCode

\* traverse: the text of the flow chain that starts at node; a call entered
\* again for a node whose call is in progress never returns
Traverse(g, node, indent, ts) ==
  IF node \in ts THEN ThrewText
  ELSE ChainCode(
         node.isVisible,
         BuildNodeCode(g, node, indent, ts \cup {node}),
         NextCode(g,
                  FirstTarget(
                    g, ExecOutConns(
                         g, Filter(node.sockets.outputs,
                                   LAMBDA x : x.name = ExecOut))),
                  indent, ts \cup {node}))

\* startNodes without the test of the connections into exec_in
StartNodesAnyExecInput(g) ==
  Filter(g.nodes,
         LAMBDA n : \E i \in 1..Len(n.sockets.inputs) :
                       n.sockets.inputs[i].type = "exec")

\* the roots of generate: startNodes
StartNodes(g) ==
  Filter(g.nodes,
         LAMBDA n :
           /\ \E i \in 1..Len(n.sockets.inputs) :
                n.sockets.inputs[i].type = "exec"
           /\ ~\E i \in 1..Len(g.connections) :
                 /\ g.connections[i].toNode = n.id
                 /\ EndsWith(g.connections[i].toSocket, Dash \o ExecIn))

\* the text generate returns, or the RangeError it raises
TextOrThrew(text) == IF ThrewTok \in Range(text) THEN ThrewText ELSE text

\* codeGenerator.generate: the document, or the RangeError of a recursion
\* without end
Generate(g) ==
  TextOrThrew(
    Join(Filter([i \in 1..Len(StartNodes(g)) |->
                   Traverse(g, StartNodes(g)[i], <<>>, {})],
                NonEmpty),
         NL \o NL))

(***************************************************************************)
(* Node Factory                                                            *)
(***************************************************************************)
ExecCapable(def) ==
  \E dir \in {"/Event_Commands/", "/Directives/", "/Meta_commands/",
              "/Utility/"} : Includes(def.sourceFile, <<dir>>)

\* the return of generateNodeSockets: the sockets split by direction
SplitSockets(allSockets) ==
  [inputs |-> Filter(allSockets, LAMBDA x : x.io = "input"),
   outputs |-> Filter(allSockets, LAMBDA x : x.io = "output")]

\* generateNodeSockets walking the arguments of a collapsed node too
GenerateNodeSocketsUngated(node) ==
  SplitSockets(
    (IF ExecCapable(NodeDef(node))
     THEN <<Socket(node.id, ExecOut, <<"▶">>, "output", "exec", "Exec"),
            Socket(node.id, ExecIn, <<"▶">>, "input", "exec", "Exec")>>
     ELSE <<>>)
    \o Flat(ArgumentWalker("sockets", EmptyGraph, node, <<>>, {})))

\* generateNodeSockets
GenerateNodeSockets(node) ==
  SplitSockets(
    (IF ExecCapable(NodeDef(node))
     THEN <<Socket(node.id, ExecOut, <<"▶">>, "output", "exec", "Exec"),
            Socket(node.id, ExecIn, <<"▶">>, "input", "exec", "Exec")>>
     ELSE <<>>)
    \o (IF node.isExpanded \/ Len(NodeDef(node).arguments) = 0
        THEN Flat(ArgumentWalker("sockets", EmptyGraph, node, <<>>, {}))
        ELSE <<>>))

EmptyMap == [k \in {} |-> Undef]

\* if (defaultValues[k] === undefined) defaultValues[k] = v
SetIfUndefined(dv, k, v) == IF k \in DOMAIN dv THEN dv ELSE dv @@ (k :> v)

RECURSIVE ProcessArgsForDefaults(_, _, _, _)
RECURSIVE ProcessItems(_, _, _, _, _)

\* defaultValues once the enabled flag of an optional argument is set
WithFlag(arg, currentKey, dv) ==
  IF arg.optional /\ arg.type # "choice"
  THEN SetIfUndefined(dv, EnabledKey(arg, currentKey), BoolV(FALSE))
  ELSE dv

\* defaultValues once the count of a repeatable or an array is set
WithCount(arg, currentKey, dv) ==
  SetIfUndefined(dv, currentKey \o Us \o <<"count">>,
                 NumV(IF arg.optional THEN 0 ELSE 1))

\* the loop over the items of a repeatable or an array, its count being set
ProcessCounted(item, currentKey, dv) ==
  ProcessItems(item, currentKey, 0, dv[currentKey \o Us \o <<"count">>].n, dv)

\* the body of processArgsForDefaults' forEach after the group case and the
\* enabled flag
ProcessKeyed(arg, currentKey, dv) ==
  IF arg.repeatable
  THEN ProcessCounted(<<[arg EXCEPT !.repeatable = FALSE]>>, currentKey,
                      WithCount(arg, currentKey, dv))
  ELSE CASE arg.type \in PrimTypes \cup {"RawCode", "JSCode"} ->
              SetIfUndefined(dv, currentKey, StrV(<<>>))
         [] arg.type = "keyword" ->
              SetIfUndefined(dv, currentKey, BoolV(FALSE))
         [] arg.type = "choice" ->
              IF currentKey \in DOMAIN dv THEN dv
              ELSE IF arg.optional
              THEN dv @@ (currentKey :> StrV(NoneSentinel))
              ELSE IF Len(arg.options) > 0
              THEN ProcessArgsForDefaults(
                     <<[arg.options[1] EXCEPT
                          !.name = GetIdentifier(arg.options[1])]>>, 0,
                     currentKey \o Us,
                     dv @@ (currentKey :> StrV(GetIdentifier(arg.options[1]))))
              ELSE dv
         [] arg.type = "subcommand" ->
              ProcessArgsForDefaults(
                arg.arguments, 0, currentKey \o Us,
                IF arg.array_parameter # <<>>
                THEN ProcessArgsForDefaults(
                       <<[arg.array_parameter[1] EXCEPT !.name = ArrayParam]>>,
                       0, currentKey \o Us, dv)
                ELSE dv)
         [] arg.type = "block" ->
              IF arg.hasContent
              THEN ProcessArgsForDefaults(arg.content, 0, currentKey \o Us, dv)
              ELSE dv
         [] arg.type = "Array" ->
              IF arg.hasContent
              THEN ProcessCounted(arg.content, currentKey,
                                  WithCount(arg, currentKey, dv))
              ELSE WithCount(arg, currentKey, dv)
         [] OTHER -> dv

\* the body of processArgsForDefaults' forEach, for the argument at index i
ProcessArg(arg, i, prefix, dv) ==
  IF arg.type = "group"
  THEN IF arg.hasContent
       THEN ProcessArgsForDefaults(arg.content, 0, prefix \o Ix(i) \o Us, dv)
       ELSE dv
  ELSE ProcessKeyed(arg, prefix \o GetIdentifier(arg),
                    WithFlag(arg, prefix \o GetIdentifier(arg), dv))

\* processArgsForDefaults(args, prefix), from the argument at index i on
ProcessArgsForDefaults(args, i, prefix, dv) ==
  IF i >= Len(args) THEN dv
  ELSE ProcessArgsForDefaults(args, i + 1, prefix,
                              ProcessArg(args[i + 1], i, prefix, dv))

\* for (j < count) processArgsForDefaults([item], `${currentKey}_${j}_`)
ProcessItems(item, currentKey, j, count, dv) ==
  IF j >= count THEN dv
  ELSE ProcessItems(item, currentKey, j + 1, count,
                    ProcessArgsForDefaults(
                      item, 0, currentKey \o Us \o Ix(j) \o Us, dv))

\* createNodeDefinition(jsonDef, type).defaultValues
\* the array parameter of the command, after its arguments
ArrayParamDefaults(jsonDef, dv) ==
  IF jsonDef.array_parameter # <<>>
  THEN ProcessArgsForDefaults(
         <<[jsonDef.array_parameter[1] EXCEPT !.name = ArrayParam]>>, 0,
         <<>>, dv)
  ELSE dv

\* createNodeDefinition: the defaultValues of a command
DefaultValues(type) ==
  ArrayParamDefaults(
    JsonDefs[type],
    ProcessArgsForDefaults(JsonDefs[type].arguments, 0, <<>>, EmptyMap))

\* getUniqueId('node')
NodeId(k) == <<"node", "-", ToString(k)>>

HasComplexArgs(type) ==
  Len(JsonDefs[type].arguments) > 0 \/ JsonDefs[type].array_parameter # <<>>

\* the instance with the sockets generated from it
WithSockets(tempInstance) ==
  [tempInstance EXCEPT !.sockets = GenerateNodeSockets(tempInstance)]

\* createNodeInstance(def, position, displayName) with the id counter at k
CreateNodeInstance(type, k) ==
  WithSockets([id |-> NodeId(k), type |-> type, values |-> DefaultValues(type),
               isExpanded |-> HasComplexArgs(type), isVisible |-> TRUE,
               sockets |-> [inputs |-> <<>>, outputs |-> <<>>]])

(***************************************************************************)
(* The handlers of the application (src/App.tsx) on the graph state        *)
(***************************************************************************)
MaxOps == 2
MaxCount == 2

Texts == {<<>>, <<"hi">>}

SetKey(values, k, v) ==
  [x \in DOMAIN values \cup {k} |-> IF x = k THEN v ELSE values[x]]

\* handleValueChange
HandleValueChange(g, nodeId, key, value) ==
  [g EXCEPT !.nodes =
     [i \in 1..Len(g.nodes) |->
        IF g.nodes[i].id = nodeId
        THEN [g.nodes[i] EXCEPT !.values = SetKey(@, key, value)]
        ELSE g.nodes[i]]]

\* handleRepeatableChange leaving the values of the removed item in the map
HandleRepeatableChangeKeepingItems(g, nodeId, listKey, action) ==
  LET countKey == listKey \o Us \o <<"count">>
      Changed(n) ==
        LET currentCount == CountOf(ValGet(n.values, countKey))
        IN IF action = "add"
           THEN [n EXCEPT !.values = SetKey(@, countKey, NumV(currentCount + 1))]
           ELSE IF action = "remove" /\ currentCount > 0
           THEN [n EXCEPT !.values = SetKey(@, countKey, NumV(currentCount - 1))]
           ELSE n
  IN [g EXCEPT !.nodes =
        [i \in 1..Len(g.nodes) |->
           IF g.nodes[i].id = nodeId THEN Changed(g.nodes[i]) ELSE g.nodes[i]]]

\* handleRepeatableChange
HandleRepeatableChange(g, nodeId, listKey, action) ==
  LET countKey == listKey \o Us \o <<"count">>
      Changed(n) ==
        LET currentCount == CountOf(ValGet(n.values, countKey))
            prefixToRemove == listKey \o Us \o Ix(currentCount - 1) \o Us
            counted == SetKey(n.values, countKey, NumV(currentCount - 1))
        IN IF action = "add"
           THEN [n EXCEPT !.values = SetKey(@, countKey, NumV(currentCount + 1))]
           ELSE IF action = "remove" /\ currentCount > 0
           THEN [n EXCEPT !.values =
                   [k \in {x \in DOMAIN counted : ~StartsWith(x, prefixToRemove)}
                      |-> counted[k]]]
           ELSE n
  IN [g EXCEPT !.nodes =
        [i \in 1..Len(g.nodes) |->
           IF g.nodes[i].id = nodeId THEN Changed(g.nodes[i]) ELSE g.nodes[i]]]

\* toggleNodeExpansion
ToggleNodeExpansion(g, nodeId) ==
  [g EXCEPT !.nodes =
     [i \in 1..Len(g.nodes) |->
        IF g.nodes[i].id = nodeId
        THEN [g.nodes[i] EXCEPT !.isExpanded = ~@] ELSE g.nodes[i]]]

\* toggleNodeVisibility
ToggleNodeVisibility(g, nodeId) ==
  [g EXCEPT !.nodes =
     [i \in 1..Len(g.nodes) |->
        IF g.nodes[i].id = nodeId
        THEN [g.nodes[i] EXCEPT !.isVisible = ~@] ELSE g.nodes[i]]]

\* deleteNode
DeleteNode(g, nodeId) ==
  [nodes |-> Filter(g.nodes, LAMBDA n : n.id # nodeId),
   connections |-> Filter(g.connections,
                          LAMBDA c : c.fromNode # nodeId /\ c.toNode # nodeId)]

\* the argument panel of a node: ReactFlowCustomNode renders the
\* ArgumentRenderer of an expanded node whose command has arguments
Panel(g, node) ==
  IF HasComplexArgs(node.type) /\ node.isExpanded
  THEN Flat(ArgumentWalker("ui", g, node, <<>>, {}))
  ELSE <<>>

\* a connection of the graph, as the editor's sync effect builds it from an
\* edge between two socket handles
Connection(sourceSocket, targetSocket) ==
  [fromNode |-> sourceSocket.nodeId, fromSocket |-> sourceSocket.id,
   toNode |-> targetSocket.nodeId, toSocket |-> targetSocket.id]

\* onConnect: whether the edge from an output to an input handle is accepted
ConnectionAccepted(sourceSocket, targetSocket) ==
  /\ sourceSocket.type = targetSocket.type
  /\ ~(/\ sourceSocket.type = "data"
       /\ sourceSocket.dataType # targetSocket.dataType
       /\ sourceSocket.dataType # "Default"
       /\ targetSocket.dataType # "Default")

\* onConnect followed by the sync of the edges into graph.connections
OnConnect(g, sourceSocket, targetSocket) ==
  IF /\ ConnectionAccepted(sourceSocket, targetSocket)
     /\ Connection(sourceSocket, targetSocket) \notin Range(g.connections)
  THEN [g EXCEPT !.connections =
          Append(@, Connection(sourceSocket, targetSocket))]
  ELSE g

IsDeferredDefault(c) == c.kind \in {"defaultFlag", "defaultChoice"}

\* the writes the argument panels defer while rendering: a flag or a choice
\* selection that is undefined is set to its default
DeferredOf(nodeId, controls) ==
  [j \in 1..Len(controls) |-> [nodeId |-> nodeId, control |-> controls[j]]]

PendingDefaults(g) ==
  Flat([i \in 1..Len(g.nodes) |->
          DeferredOf(g.nodes[i].id,
                     Filter(Panel(g, g.nodes[i]), IsDeferredDefault))])

\* onValueChange(node.id, key, defaultValue) of a deferred write
ApplyDefault(g, d) ==
  HandleValueChange(g, d.nodeId, d.control.key,
                    IF d.control.kind = "defaultFlag" THEN BoolV(FALSE)
                    ELSE StrV(d.control.options[1]))

RECURSIVE Settle(_)

SettleWith(g, pending) ==
  IF Len(pending) = 0 THEN g ELSE Settle(ApplyDefault(g, pending[1]))

\* the graph once every deferred write of the rendering has been applied
Settle(g) == SettleWith(g, PendingDefaults(g))

(***************************************************************************)
(* Live evaluation: the effect of src/App.tsx that stores the result of    *)
(* each Evaluate JS Code node                                              *)
(***************************************************************************)
\* Array.prototype.findIndex, from 0; -1 when no element passes
FindIndex(s, Test(_)) ==
  IF \E i \in 1..Len(s) : Test(s[i])
  THEN (CHOOSE i \in 1..Len(s) :
          Test(s[i]) /\ \A j \in 1..(i - 1) : ~Test(s[j])) - 1
  ELSE -1

\* String(code).trim() === ''
IsBlank(text) == \A i \in 1..Len(text) : text[i] \in {" ", "\n"}

\* the texts parseFloat reads as a finite number, with the number each denotes
NumericTexts == (<<"2">> :> 2) @@ (<<"07">> :> 7)

\* !isNaN(parseFloat(rawValue)) && isFinite(rawValue) ? parseFloat(rawValue)
\*                                                     : rawValue
ParsedValue(rawValue) ==
  IF rawValue.t = "str" /\ rawValue.s \in DOMAIN NumericTexts
  THEN NumV(NumericTexts[rawValue.s])
  ELSE rawValue

\* new Function(...varNames, `return ${code}`)(...varValues), with the
\* String(result ?? '') of its result or the message of its error
EvalFunction(variables, code) ==
  IF Len(code) = 1 /\ code \in DOMAIN variables
  THEN [ok |-> TRUE,
        s |-> IF variables[code] = Undef THEN <<>> ELSE ToStr(variables[code])]
  ELSE EvalJS(code)

\* variables[varName] = parsedValue when varName is truthy
Bind(variables, varName, rawValue) ==
  IF Truthy(varName)
  THEN [x \in DOMAIN variables \cup {ToStr(varName)} |->
          IF x = ToStr(varName) THEN ParsedValue(rawValue) ELSE variables[x]]
  ELSE variables

EmptyVariables == [x \in {} |-> Undef]

\* the loop that collects the variables of the node, from index i on
RECURSIVE CollectVariables(_, _, _, _, _, _)
CollectVariables(g, n, varGroupKey, i, varCount, variables) ==
  IF i >= varCount THEN variables
  ELSE CollectVariables(
         g, n, varGroupKey, i + 1, varCount,
         Bind(variables,
              GetSocketValue(g, n, varGroupKey \o Us \o Ix(i) \o Us
                                   \o <<"0", "_", "name">>, {}),
              GetSocketValue(g, n, varGroupKey \o Us \o Ix(i) \o Us
                                   \o <<"1", "_", "value">>, {})))

\* the values getSocketValue returns while the variables are collected
RECURSIVE VariableReads(_, _, _, _, _)
VariableReads(g, n, varGroupKey, i, varCount) ==
  IF i >= varCount THEN <<>>
  ELSE <<GetSocketValue(g, n, varGroupKey \o Us \o Ix(i) \o Us
                              \o <<"0", "_", "name">>, {}),
         GetSocketValue(g, n, varGroupKey \o Us \o Ix(i) \o Us
                              \o <<"1", "_", "value">>, {})>>
       \o VariableReads(g, n, varGroupKey, i + 1, varCount)

\* the variables of the node, its variable group being at varGroupArgIndex
VariablesOf(g, n, varGroupArgIndex) ==
  IF varGroupArgIndex = -1 THEN EmptyVariables
  ELSE CollectVariables(
         g, n, Ix(varGroupArgIndex) \o Us \o <<"variable">>, 0,
         CountOf(GetSocketValue(g, n,
                                Ix(varGroupArgIndex) \o Us
                                \o <<"variable", "_", "count">>, {})),
         EmptyVariables)

\* what the reads of the variables are, for the error a read may raise
ReadsOf(g, n, varGroupArgIndex) ==
  IF varGroupArgIndex = -1 THEN <<>>
  ELSE <<GetSocketValue(g, n, Ix(varGroupArgIndex) \o Us
                              \o <<"variable", "_", "count">>, {})>>
       \o VariableReads(
            g, n, Ix(varGroupArgIndex) \o Us \o <<"variable">>, 0,
            CountOf(GetSocketValue(g, n,
                                   Ix(varGroupArgIndex) \o Us
                                   \o <<"variable", "_", "count">>, {})))

\* resultString of the evaluation
ResultString(outcome) ==
  IF outcome.ok THEN outcome.s
  ELSE <<"/* Error: ">> \o outcome.s \o <<" */">>

\* the node with its result stored, or nothing when a read raised
Evaluated(n, resultKey, code, reads, variables) ==
  IF code = ThrewV THEN Null
  ELSE IF code = Undef \/ IsBlank(ToStr(code))
  THEN Just([n EXCEPT !.values = SetKey(@, resultKey, StrV(<<>>))])
  ELSE IF ThrewV \in Range(reads) THEN Null
  ELSE Just([n EXCEPT !.values =
               SetKey(@, resultKey,
                      StrV(ResultString(EvalFunction(variables,
                                                     ToStr(code)))))])

\* the evaluation of a node whose JSCode argument is at codeArgIndex
EvaluateAt(g, n, codeArgIndex) ==
  IF codeArgIndex = -1 THEN Just(n)
  ELSE Evaluated(
         n,
         Ix(codeArgIndex) \o Us
           \o NodeDef(n).arguments[codeArgIndex + 1].name \o Us
           \o <<"result">>,
         GetSocketValue(g, n,
                        Ix(codeArgIndex) \o Us
                          \o NodeDef(n).arguments[codeArgIndex + 1].name,
                        {}),
         ReadsOf(g, n, FindIndex(NodeDef(n).arguments,
                                 LAMBDA a : a.name = <<"variable">>)),
         VariablesOf(g, n, FindIndex(NodeDef(n).arguments,
                                     LAMBDA a : a.name = <<"variable">>)))

\* the body of newNodes' map
EvaluateNode(g, n) ==
  IF NodeDef(n).command # EvalCommand THEN Just(n)
  ELSE EvaluateAt(g, n, FindIndex(NodeDef(n).arguments,
                                  LAMBDA a : a.type = "JSCode"))

\* the graph the effect sets, or nothing when it raised
NewGraph(g, newNodes) ==
  IF \E i \in 1..Len(newNodes) : newNodes[i] = Null THEN Null
  ELSE Just([g EXCEPT !.nodes = Flat(newNodes)])

LiveEvaluate(g) ==
  NewGraph(g, [i \in 1..Len(g.nodes) |-> EvaluateNode(g, g.nodes[i])])

\* the graph once the deferred writes and the evaluations have come to rest,
\* or the graph at which the evaluation raised
RECURSIVE Stabilise(_)

StabiliseWith(g, evaluated) ==
  IF evaluated = Null THEN [graph |-> g, threw |-> TRUE]
  ELSE IF evaluated[1] = g THEN [graph |-> g, threw |-> FALSE]
  ELSE Stabilise(evaluated[1])

StabiliseSettled(g) == StabiliseWith(g, LiveEvaluate(g))

Stabilise(g) == StabiliseSettled(Settle(g))

(***************************************************************************)
(* Project files (the input of handleLoadProject)                          *)
(***************************************************************************)
MkNode(type, k, edits) ==
  [CreateNodeInstance(type, k) EXCEPT !.values = edits @@ @]

TextKey == <<"0", "_", "text">>
DoKey == <<"0", "_", "do">>
CodeKey == <<"1", "_", "code">>

Wire(fromK, fromKey, toK, toKey) ==
  [fromNode |-> NodeId(fromK), fromSocket |-> NodeId(fromK) \o Dash \o fromKey,
   toNode |-> NodeId(toK), toSocket |-> NodeId(toK) \o Dash \o toKey]

ShowNode(k, text) == MkNode("Show", k, TextKey :> StrV(<<text>>))

ProjectFiles ==
  << \* three statements in a flow chain
     [nodes |-> <<ShowNode(0, "a"), ShowNode(1, "b"), ShowNode(2, "c")>>,
      connections |-> <<Wire(0, ExecOut, 1, ExecIn), Wire(1, ExecOut, 2, ExecIn)>>],
     \* two statements, the second fed by the first
     [nodes |-> <<ShowNode(0, "a"), ShowNode(1, "b")>>,
      connections |-> <<Wire(0, TextKey, 1, TextKey)>>],
     \* a statement fed by a node that is not in the file
     [nodes |-> <<ShowNode(0, "a")>>,
      connections |-> <<Wire(7, TextKey, 0, TextKey)>>],
     \* an evaluated expression feeding a statement that feeds another
     [nodes |-> <<MkNode("Eval", 0,
                         (CodeKey :> StrV(<<"1", "+", "1">>))
                         @@ ((CodeKey \o Us \o <<"result">>) :> StrV(<<"2">>))),
                  ShowNode(1, "b"), ShowNode(2, "c")>>,
      connections |-> <<Wire(0, CodeKey, 1, TextKey),
                        Wire(1, TextKey, 2, TextKey)>>],
     \* a loop whose body is a statement, followed by a statement
     [nodes |-> <<MkNode("Loop", 0, EmptyMap), ShowNode(1, "b"),
                  ShowNode(2, "c")>>,
      connections |-> <<Wire(0, DoKey, 1, ExecIn), Wire(0, ExecOut, 2, ExecIn)>>],
     \* a statement whose flow output is connected to two statements
     [nodes |-> <<ShowNode(0, "a"), ShowNode(1, "b"), ShowNode(2, "c")>>,
      connections |-> <<Wire(0, ExecOut, 1, ExecIn), Wire(0, ExecOut, 2, ExecIn)>>] >>

(***************************************************************************)
(* The editor as a state machine                                           *)
(***************************************************************************)
FlowTypes == {"Show", "Loop", "Eval"}

\* an uncaught error of an effect takes the application down
Alive == ~crashed

\* the graph at rest, and the generation effect run on it; the queue of the
\* live evaluation and the synchronisation with React Flow are followed step by step in
\* SpecLive and SpecSync only
Rendered(rest) ==
  /\ graph' = rest.graph
  /\ generatedCode' = Generate(rest.graph)
  /\ crashed' = (rest.threw \/ Generate(rest.graph) = ThrewText)
  /\ UNCHANGED <<queued, sync>>

\* an update of the graph state: the panels render and settle, the effects
\* run
Commit(g) == Rendered(Stabilise(g))

\* a user operation, counted against the budget of the run
Budget == ops < MaxOps /\ ops' = ops + 1

\* the controls of kind k the panels of the graph show, with their nodes
Controls(g, kinds) ==
  UNION {{[nodeId |-> g.nodes[i].id, values |-> g.nodes[i].values,
           control |-> c] :
            c \in {x \in Range(Panel(g, g.nodes[i])) : x.kind \in kinds}} :
         i \in 1..Len(g.nodes)}

Handles(node) == GenerateNodeSockets(node)

LoadProject ==
  \E file \in Range(ProjectFiles) :
    /\ Alive /\ Budget
    /\ Commit(file)
    /\ UNCHANGED nextId

AddNode ==
  \E t \in FlowTypes :
    /\ Alive /\ Budget
    /\ Commit([graph EXCEPT !.nodes = Append(@, CreateNodeInstance(t, nextId))])
    /\ nextId' = nextId + 1

EditInput ==
  \E e \in Controls(graph, {"input"}), text \in Texts :
    /\ Alive /\ Budget
    /\ Commit(HandleValueChange(graph, e.nodeId, e.control.key, StrV(text)))
    /\ UNCHANGED nextId

ToggleCheckbox ==
  \E e \in Controls(graph, {"checkbox"}) :
    /\ Alive /\ Budget
    /\ Commit(HandleValueChange(
                graph, e.nodeId, e.control.key,
                BoolV(~Truthy(ValGet(e.values, e.control.key)))))
    /\ UNCHANGED nextId

SelectOption ==
  \E e \in Controls(graph, {"select"}) :
    \E o \in 1..Len(e.control.options) :
      /\ Alive /\ Budget
      /\ Commit(HandleValueChange(graph, e.nodeId, e.control.key,
                                  StrV(e.control.options[o])))
      /\ UNCHANGED nextId

ChangeRepeatable ==
  \E e \in Controls(graph, {"add", "remove"}) :
    /\ Alive /\ Budget
    /\ e.control.kind = "add" =>
         CountOf(ValGet(e.values, e.control.key \o Us \o <<"count">>))
           < MaxCount
    /\ Commit(HandleRepeatableChange(graph, e.nodeId, e.control.key,
                                     e.control.kind))
    /\ UNCHANGED nextId

ToggleExpansion ==
  \E i \in 1..Len(graph.nodes) :
    /\ Alive /\ Budget
    /\ HasComplexArgs(graph.nodes[i].type)
    /\ Commit(ToggleNodeExpansion(graph, graph.nodes[i].id))
    /\ UNCHANGED nextId

ToggleVisibility ==
  \E i \in 1..Len(graph.nodes) :
    /\ Alive /\ Budget
    /\ Commit(ToggleNodeVisibility(graph, graph.nodes[i].id))
    /\ UNCHANGED nextId

Delete ==
  \E i \in 1..Len(graph.nodes) :
    /\ Alive /\ Budget
    /\ Commit(DeleteNode(graph, graph.nodes[i].id))
    /\ UNCHANGED nextId

Connect ==
  \E i \in 1..Len(graph.nodes), j \in 1..Len(graph.nodes) :
    \E so \in Range(Handles(graph.nodes[i]).outputs) :
      \E si \in Range(Handles(graph.nodes[j]).inputs) :
        \E g \in {OnConnect(graph, so, si)} :
          /\ Alive /\ Budget
          /\ g # graph
          /\ Commit(g)
          /\ UNCHANGED nextId

Init ==
  /\ graph = EmptyGraph
  /\ nextId = 0
  /\ generatedCode = <<>>
  /\ crashed = FALSE
  /\ ops = 0
  /\ queued = Null
  /\ sync = NoSync

Next ==
  \/ LoadProject
  \/ AddNode
  \/ EditInput
  \/ ChangeRepeatable
  \/ ToggleExpansion
  \/ ToggleVisibility
  \/ Delete
  \/ Connect

Spec == Init /\ [][Next]_vars

(***************************************************************************)
(* One command of each grammar shape under the editor: the node of the     *)
(* command and a statement that can feed it or be fed by it                *)
(***************************************************************************)
WalkTypes == {"Wait", "Run", "Pick", "Say"}

FastKey == <<"0", "_", "fast">>
MsgKey == <<"1", "_", "msg">>
ModeKey == <<"0", "_", "mode">>

\* a node of a saved project: every optional argument enabled, a text typed
SavedRun ==
  MkNode("Run", 0,
         (FastKey :> BoolV(TRUE))
         @@ ((MsgKey \o Us \o <<"enabled">>) :> BoolV(TRUE))
         @@ (MsgKey :> StrV(<<"hi">>)))

\* a node of a saved project: an option selected, a text typed in its field
SavedPick ==
  MkNode("Pick", 0,
         (ModeKey :> StrV(<<"a">>))
         @@ ((ModeKey \o <<"_", "1", "_", "value">>) :> StrV(<<"hi">>)))

LineKey == <<"0", "_", "line">>

\* a node of a saved project: two items of its repeatable argument
SavedSay ==
  MkNode("Say", 0,
         ((LineKey \o <<"_", "count">>) :> NumV(2))
         @@ ((LineKey \o <<"_", "0", "_", "line">>) :> StrV(<<"hi">>))
         @@ ((LineKey \o <<"_", "1", "_", "line">>) :> StrV(<<>>)))

\* the node under the editor: a node as the node factory creates it, or the
\* node of a saved project
Subjects ==
  {CreateNodeInstance(t, 0) : t \in WalkTypes}
  \cup {SavedRun, SavedPick, SavedSay}

InitWalk ==
  \E subject \in Subjects :
    \E rest \in {Stabilise([nodes |-> <<subject, ShowNode(1, "a")>>,
                            connections |-> <<>>])} :
      /\ graph = rest.graph
      /\ nextId = 2
      /\ generatedCode = Generate(rest.graph)
      /\ crashed = FALSE
      /\ ops = 0
      /\ queued = Null
      /\ sync = NoSync

NextWalk ==
  \/ EditInput
  \/ ToggleCheckbox
  \/ SelectOption
  \/ ChangeRepeatable
  \/ ToggleExpansion
  \/ Connect

SpecWalk == InitWalk /\ [][NextWalk]_vars

(***************************************************************************)
(* One node of each remaining grammar shape alone under the editor:        *)
(* groups, arrays, subcommands, blocks, raw code, a base with an array     *)
(* parameter, a base that is null, the command that evaluates code         *)
(***************************************************************************)
ShapeTypes ==
  {"Wait", "Opts", "Code", "Move", "List", "Pic", "Tint", "Bare", "Eval",
   "Calc"}

WaitKey == <<"0", "_", "Numeric">>
MoveToKey == <<"0", "_", "MoveTo">>
CallKey == <<"1", "_", "Call">>
TagKey == <<"1", "_", "tag">>
RawKey == <<"0", "_", "code">>
ExprKey == <<"1", "_", "expr">>

\* a node of a saved project: a number typed
SavedWait == MkNode("Wait", 0, WaitKey :> StrV(<<"30">>))

\* a node of a saved project: every field of its two subcommands typed
SavedMove ==
  MkNode("Move", 0,
         ((MoveToKey \o <<"_", "array", "_", "param">>) :> StrV(<<"5,10">>))
         @@ ((MoveToKey \o <<"_", "0", "_", "block", "_", "0", "_", "child">>)
               :> StrV(<<"go">>))
         @@ ((CallKey \o <<"_", "0", "_", "a">>) :> StrV(<<"x">>))
         @@ ((CallKey \o <<"_", "1", "_", "b">>) :> StrV(<<"3">>)))

\* a node of a saved project: its optional list enabled, one item typed
SavedList ==
  MkNode("List", 0,
         ((TagKey \o <<"_", "enabled">>) :> BoolV(TRUE))
         @@ ((TagKey \o <<"_", "count">>) :> NumV(1))
         @@ ((TagKey \o <<"_", "0", "_", "tag">>) :> StrV(<<"hi">>)))

\* a node of a saved project: two items of raw code
SavedCode ==
  MkNode("Code", 0,
         ((RawKey \o <<"_", "count">>) :> NumV(2))
         @@ ((RawKey \o <<"_", "0", "_", "code">>) :> StrV(<<"a()">>))
         @@ ((RawKey \o <<"_", "1", "_", "code">>) :> StrV(<<"b()">>)))

\* a node of a saved project: the array parameter and the number typed
SavedPic ==
  MkNode("Pic", 0,
         (ArrayParam :> StrV(<<"1">>)) @@ (<<"0", "_", "x">> :> StrV(<<"30">>)))

\* a node of a saved project: its label typed, its embedded code a text whose
\* evaluation fails
SavedCalc ==
  MkNode("Calc", 0,
         (<<"0", "_", "label">> :> StrV(<<"x">>))
         @@ (ExprKey :> StrV(<<"hi">>)))

ShapeSubjects ==
  {CreateNodeInstance(t, 0) : t \in ShapeTypes}
  \cup {SavedWait, SavedMove, SavedList, SavedCode, SavedPic, SavedCalc}

InitShapes ==
  \E subject \in ShapeSubjects :
    \E rest \in {Stabilise([nodes |-> <<subject>>, connections |-> <<>>])} :
      /\ graph = rest.graph
      /\ nextId = 1
      /\ generatedCode = Generate(rest.graph)
      /\ crashed = FALSE
      /\ ops = 0
      /\ queued = Null
      /\ sync = NoSync

NextShapes ==
  \/ EditInput
  \/ ToggleCheckbox
  \/ SelectOption
  \/ ChangeRepeatable
  \/ ToggleExpansion

SpecShapes == InitShapes /\ [][NextShapes]_vars

(***************************************************************************)
(* One node whose command and subcommand declare an optional                *)
(* array-parameter, alone in the graph                                      *)
(***************************************************************************)
FadeXKey == <<"0", "_", "x">>
GoKey == <<"1", "_", "Go">>
GoAKey == GoKey \o <<"_", "0", "_", "a">>

\* a saved node of 'Fade': its arguments have values, its array-parameters
\* are disabled
SavedFade ==
  MkNode("Fade", 0, (FadeXKey :> StrV(<<"30">>)) @@ (GoAKey :> StrV(<<"go">>)))

\* a saved node of 'Fade' whose array-parameters are enabled and have values
SavedFadeOn ==
  MkNode("Fade", 0,
         (FadeXKey :> StrV(<<"30">>)) @@ (GoAKey :> StrV(<<"go">>))
         @@ (ArrayParam \o <<"_", "enabled">> :> BoolV(TRUE))
         @@ (ArrayParam :> StrV(<<"7">>))
         @@ (GoKey \o Us \o ArrayParam \o <<"_", "enabled">> :> BoolV(TRUE))
         @@ (GoKey \o Us \o ArrayParam :> StrV(<<"9">>)))

BracketSubjects == {CreateNodeInstance("Fade", 0), SavedFade, SavedFadeOn}

InitBrackets ==
  \E subject \in BracketSubjects :
    \E rest \in {Stabilise([nodes |-> <<subject>>, connections |-> <<>>])} :
      /\ graph = rest.graph
      /\ nextId = 1
      /\ generatedCode = Generate(rest.graph)
      /\ crashed = FALSE
      /\ ops = 0
      /\ queued = Null
      /\ sync = NoSync

NextBrackets ==
  \/ EditInput
  \/ ToggleCheckbox
  \/ ToggleExpansion

SpecBrackets == InitBrackets /\ [][NextBrackets]_vars

(***************************************************************************)
(* The live evaluation step by step: the effect computes the nodes to set  *)
(* from the graph of its render and queues the update, which is applied to *)
(* the graph state of the moment it is processed                           *)
(***************************************************************************)
ResultKey == CodeKey \o Us \o <<"result">>
VariableKey == <<"0", "_", "variable">>
VarName(i) == VariableKey \o Us \o Ix(i) \o <<"_", "0", "_", "name">>
VarValue(i) == VariableKey \o Us \o Ix(i) \o <<"_", "1", "_", "value">>

\* the values of an expression over two variables that name each other
SwapValues ==
  ((VariableKey \o <<"_", "count">>) :> NumV(2))
  @@ (VarName(0) :> StrV(<<"p">>)) @@ (VarValue(0) :> StrV(<<"q">>))
  @@ (VarName(1) :> StrV(<<"q">>)) @@ (VarValue(1) :> StrV(<<"p">>))
  @@ (CodeKey :> StrV(<<"p">>)) @@ (ResultKey :> StrV(<<"q">>))

LiveFiles ==
  << \* an expression whose result feeds the code of another expression
     [nodes |-> <<MkNode("Eval", 0, CodeKey :> StrV(<<"1", "+", "1">>)),
                  MkNode("Eval", 1, EmptyMap)>>,
      connections |-> <<Wire(0, CodeKey, 1, CodeKey)>>],
     \* an expression with its result, feeding a statement that feeds another
     ProjectFiles[4],
     \* an expression whose code does not parse
     [nodes |-> <<MkNode("Eval", 0, CodeKey :> StrV(<<"1", "+">>))>>,
      connections |-> <<>>],
     \* an expression over two variables that name each other, saved with
     \* its result
     [nodes |-> <<MkNode("Eval", 0, SwapValues)>>, connections |-> <<>>],
     \* the same expression, its code input connected to its own result
     [nodes |-> <<MkNode("Eval", 0, SwapValues)>>,
      connections |-> <<Wire(0, CodeKey, 0, CodeKey)>>] >>

\* setGraph of a handler; the generation effect is not followed here
SetGraph(g) ==
  /\ graph' = g
  /\ UNCHANGED <<nextId, generatedCode, crashed, sync>>

\* handleLoadProject
LoadLive ==
  \E file \in Range(LiveFiles) :
    /\ Alive /\ Budget
    /\ SetGraph(file)
    /\ UNCHANGED queued

\* handleValueChange of an input of a panel
EditLive ==
  \E e \in Controls(graph, {"input"}), text \in Texts :
    /\ Alive /\ Budget
    /\ SetGraph(HandleValueChange(graph, e.nodeId, e.control.key, StrV(text)))
    /\ UNCHANGED queued

\* toggleNodeVisibility
ToggleLive ==
  \E i \in 1..Len(graph.nodes) :
    /\ Alive /\ Budget
    /\ SetGraph(ToggleNodeVisibility(graph, graph.nodes[i].id))
    /\ UNCHANGED queued

\* deleteNode
DeleteLive ==
  \E i \in 1..Len(graph.nodes) :
    /\ Alive /\ Budget
    /\ SetGraph(DeleteNode(graph, graph.nodes[i].id))
    /\ UNCHANGED queued

\* the live evaluation effect runs on the graph of its render: it queues
\* its update when a result has to change, and takes the application down
\* when a read raises
RunLive ==
  /\ Alive /\ queued = Null
  /\ \E newNodes \in {[i \in 1..Len(graph.nodes) |->
                         EvaluateNode(graph, graph.nodes[i])]} :
       \E evaluated \in {NewGraph(graph, newNodes)} :
         /\ evaluated # Just(graph)
         /\ IF evaluated = Null
            THEN crashed' = TRUE /\ queued' = queued
            ELSE /\ crashed' = crashed
                 /\ queued' = Just([from |-> graph.nodes,
                                     nodes |-> evaluated[1].nodes])
  /\ UNCHANGED <<graph, nextId, generatedCode, ops, sync>>

\* setGraph(g => ({ ...g, nodes: newNodes })) is processed
ApplyLive ==
  /\ Alive /\ queued # Null
  /\ SetGraph([graph EXCEPT !.nodes = queued[1].nodes])
  /\ queued' = Null
  /\ UNCHANGED ops

NextLive ==
  \/ LoadLive
  \/ EditLive
  \/ ToggleLive
  \/ DeleteLive
  \/ RunLive
  \/ ApplyLive

\* the effects of a render run, and a queued update is processed
SpecLive ==
  Init /\ [][NextLive]_vars /\ WF_vars(RunLive) /\ WF_vars(ApplyLive)

(***************************************************************************)
(* The synchronisation of the graph state with the state of React Flow,    *)
(* step by step: a step is a render with the effects it runs, whose        *)
(* updates make the next render. Positions are not followed.               *)
(***************************************************************************)
MainPrefix == <<"main", "_">>
OutSuffix == <<"_", "out">>
InSuffix == <<"_", "in">>

\* convertToReactFlowEdges: the edge of a connection
FlowEdge(conn) ==
  [source |-> conn.fromNode, target |-> conn.toNode,
   sourceHandle |->
     (IF Includes(conn.fromSocket, ExecOut) THEN MainPrefix ELSE <<>>)
     \o RemoveFirst(conn.fromSocket, conn.fromNode \o Dash) \o OutSuffix,
   targetHandle |->
     (IF Includes(conn.toSocket, ExecIn) THEN MainPrefix ELSE <<>>)
     \o RemoveFirst(conn.toSocket, conn.toNode \o Dash) \o InSuffix]

FlowEdges(g) == [i \in 1..Len(g.connections) |-> FlowEdge(g.connections[i])]

\* convertToReactFlowNodes, as far as the identity of the nodes
FlowNodes(g) == [i \in 1..Len(g.nodes) |-> g.nodes[i].id]

\* handle.replace(/_out$/, '').replace(/^main_/, '')
HandleBase(handle, suffix) ==
  LET cut == IF EndsWith(handle, suffix)
             THEN SubSeq(handle, 1, Len(handle) - Len(suffix)) ELSE handle
  IN IF StartsWith(cut, MainPrefix)
     THEN SubSeq(cut, Len(MainPrefix) + 1, Len(cut)) ELSE cut

\* the connection the sync effect makes of an edge
ConnectionOfEdge(edge) ==
  [fromNode |-> edge.source,
   fromSocket |-> edge.source \o Dash \o HandleBase(edge.sourceHandle, OutSuffix),
   toNode |-> edge.target,
   toSocket |-> edge.target \o Dash \o HandleBase(edge.targetHandle, InSuffix)]

UpdatedConnections(edges) ==
  [i \in 1..Len(edges) |-> ConnectionOfEdge(edges[i])]

\* graph.nodes.find(n => n.id === id): the first node of that id
FindNode(g, id) ==
  IF \E i \in 1..Len(g.nodes) : g.nodes[i].id = id
  THEN Just(g.nodes[CHOOSE i \in 1..Len(g.nodes) :
                      /\ g.nodes[i].id = id
                      /\ \A j \in 1..(i - 1) : g.nodes[j].id # id])
  ELSE Null

\* nodes.map(...).filter(Boolean)
UpdatedNodes(g, nodes) == Flat([i \in 1..Len(nodes) |-> FindNode(g, nodes[i])])

\* hasConnectionChanges; a connection is identified by its ends
HasConnectionChanges(g, updatedConnections) ==
  \/ Len(updatedConnections) # Len(g.connections)
  \/ \E i \in 1..Len(updatedConnections) :
       updatedConnections[i] \notin Range(g.connections)

\* whether the sync effect of React Flow sets the graph: never during the
\* empty state; hasNodeChanges is about positions only
SyncSetsGraph(g, s) ==
  Len(s.nodes) > 0 /\ HasConnectionChanges(g, UpdatedConnections(s.edges))

\* a render and its effects: the effect of the graph sets the nodes and the
\* edges of the flow when the graph has changed, the effect of the flow sets
\* the graph from the nodes and edges of this render
SyncStep ==
  /\ Alive /\ sync.due # {}
  /\ graph' = IF SyncSetsGraph(graph, sync)
              THEN [nodes |-> UpdatedNodes(graph, sync.nodes),
                    connections |-> UpdatedConnections(sync.edges)]
              ELSE graph
  /\ sync' = [sync EXCEPT
                !.nodes = IF "graph" \in sync.due THEN FlowNodes(graph) ELSE @,
                !.edges = IF "graph" \in sync.due THEN FlowEdges(graph) ELSE @,
                !.due = (IF "graph" \in sync.due THEN {"flow"} ELSE {})
                        \cup (IF SyncSetsGraph(graph, sync) THEN {"graph"}
                              ELSE {})]
  /\ UNCHANGED <<nextId, generatedCode, crashed, ops, queued>>

\* a handler sets the graph while the synchronisation is at rest
Mutate(g) ==
  /\ Alive /\ Budget /\ sync.due = {}
  /\ graph' = g
  /\ sync' = [sync EXCEPT !.due = {"graph"}, !.asked = g,
                          !.agreed = ~SyncSetsGraph(g, sync)]
  /\ UNCHANGED <<generatedCode, crashed, queued>>

SyncFiles == <<ProjectFiles[1], ProjectFiles[2], ProjectFiles[5]>>

\* handleLoadProject
LoadSync ==
  \E file \in Range(SyncFiles) : Mutate(file) /\ UNCHANGED nextId

\* the node handleImportProject makes of a node of the file
ImportedNode(loadedNode, k) ==
  [CreateNodeInstance(loadedNode.type, k) EXCEPT
     !.values = loadedNode.values @@ @,
     !.isExpanded = loadedNode.isExpanded,
     !.isVisible = loadedNode.isVisible]

\* idMap.get(id): the id given to the last node of the file with that id
IdMapGet(file, k, id) ==
  IF \E i \in 1..Len(file.nodes) : file.nodes[i].id = id
  THEN Just(NodeId(k - 1 + CHOOSE i \in 1..Len(file.nodes) :
                             /\ file.nodes[i].id = id
                             /\ \A j \in (i + 1)..Len(file.nodes) :
                                  file.nodes[j].id # id))
  ELSE Null

\* the connection handleImportProject makes of a connection of the file
ImportedConnection(file, k, conn) ==
  IF IdMapGet(file, k, conn.fromNode) = Null
     \/ IdMapGet(file, k, conn.toNode) = Null
  THEN Null
  ELSE Just([fromNode |-> IdMapGet(file, k, conn.fromNode)[1],
             toNode |-> IdMapGet(file, k, conn.toNode)[1],
             fromSocket |-> IdMapGet(file, k, conn.fromNode)[1] \o Dash
                            \o RemoveFirst(conn.fromSocket, conn.fromNode \o Dash),
             toSocket |-> IdMapGet(file, k, conn.toNode)[1] \o Dash
                          \o RemoveFirst(conn.toSocket, conn.toNode \o Dash)])

\* handleImportProject: the nodes and connections of the file are added
\* under new ids
HandleImportProject(g, file, k) ==
  [nodes |-> g.nodes \o [i \in 1..Len(file.nodes) |->
                           ImportedNode(file.nodes[i], k + i - 1)],
   connections |->
     g.connections \o Flat([i \in 1..Len(file.connections) |->
                              ImportedConnection(file, k, file.connections[i])])]

ImportSync ==
  \E file \in Range(SyncFiles) :
    /\ Mutate(HandleImportProject(graph, file, nextId))
    /\ nextId' = nextId + Len(file.nodes)

AddSync ==
  \E t \in FlowTypes :
    /\ Mutate([graph EXCEPT !.nodes = Append(@, CreateNodeInstance(t, nextId))])
    /\ nextId' = nextId + 1

EditSync ==
  \E e \in Controls(graph, {"input"}), text \in Texts :
    /\ Mutate(HandleValueChange(graph, e.nodeId, e.control.key, StrV(text)))
    /\ UNCHANGED nextId

DeleteSync ==
  \E i \in 1..Len(graph.nodes) :
    /\ Mutate(DeleteNode(graph, graph.nodes[i].id))
    /\ UNCHANGED nextId

\* onConnect: setEdges((eds) => addEdge(connection, eds))
ConnectSync ==
  \E i \in 1..Len(graph.nodes), j \in 1..Len(graph.nodes) :
    \E so \in Range(Handles(graph.nodes[i]).outputs) :
      \E si \in Range(Handles(graph.nodes[j]).inputs) :
        /\ Alive /\ Budget /\ sync.due = {}
        /\ ConnectionAccepted(so, si)
        /\ FlowEdge(Connection(so, si)) \notin Range(sync.edges)
        /\ sync' = [sync EXCEPT
                      !.edges = Append(@, FlowEdge(Connection(so, si))),
                      !.due = {"flow"},
                      !.asked = OnConnect(graph, so, si),
                      !.agreed = TRUE]
        /\ UNCHANGED <<graph, nextId, generatedCode, crashed, queued>>

NextSync ==
  \/ LoadSync
  \/ ImportSync
  \/ AddSync
  \/ EditSync
  \/ DeleteSync
  \/ ConnectSync
  \/ SyncStep

\* the effects of a render run
SpecSync == Init /\ [][NextSync]_vars /\ WF_vars(SyncStep)

(***************************************************************************)
(* Properties of the code generator                                        *)
(***************************************************************************)
\* C1: generate terminates and returns a string, without throwing, for every
\* graph the editor can hold, the graphs with a flow cycle or a data cycle
\* included: the generated text is never the RangeError of a recursion
\* without end.
C1_GenerateReturnsText == generatedCode # ThrewText

\* the nodes of the flow chain that starts at node, in flow order: each node
\* is followed by the target of the first connection leaving its exec_out
RECURSIVE FlowOrder(_, _, _)
FlowOrder(g, node, seen) ==
  LET leaving == Filter(g.connections,
                        LAMBDA c : c.fromSocket = node.id \o Dash \o ExecOut)
      next == IF Len(leaving) > 0 THEN NodeMapGet(g, leaving[1].toNode)
              ELSE Null
  IN IF node \in seen THEN <<>>
     ELSE <<node>> \o (IF next = Null THEN <<>>
                       ELSE FlowOrder(g, next[1], seen \cup {node}))

\* the lines the visible nodes of a chain contribute
VisibleLines(g, chain) ==
  Filter([k \in 1..Len(chain) |->
            IF chain[k].isVisible THEN BuildNodeCode(g, chain[k], <<>>, {})
            ELSE <<>>],
         NonEmpty)

\* a root: a node with a flow input whose exec_in no connection enters
IsRoot(g, n) ==
  /\ \E s \in Range(n.sockets.inputs) : s.type = "exec"
  /\ ~\E c \in Range(g.connections) : c.toSocket = n.id \o Dash \o ExecIn

Roots(g) == Filter(g.nodes, LAMBDA n : IsRoot(g, n))

\* C2: the text of every flow chain is the newline-join of the lines of its
\* visible nodes in flow order; a hidden node contributes neither text nor
\* an empty line, and the chain continues through it.
C2_ChainIsJoinOfVisibleLines ==
  Alive =>
    \A r \in Range(Roots(graph)) :
      Traverse(graph, r, <<>>, {})
        = Join(VisibleLines(graph, FlowOrder(graph, r, {})), NL)

\* C2, its case: a chain A -> H -> C with H hidden, the text being A's line,
\* one newline, C's line
C2_HiddenBetweenVisible ==
  /\ Alive
  /\ \E r \in Range(Roots(graph)) :
       LET chain == FlowOrder(graph, r, {})
       IN /\ Len(chain) = 3
          /\ chain[1].isVisible /\ ~chain[2].isVisible /\ chain[3].isVisible
          /\ generatedCode = BuildNodeCode(graph, chain[1], <<>>, {}) \o NL
                             \o BuildNodeCode(graph, chain[3], <<>>, {})
          /\ Len(generatedCode) > 1

\* C3: the document is built from exactly the roots: the chain text of every
\* root, in node order, the non-empty texts separated by one blank line; a
\* node whose exec_in a connection enters starts no chain.
C3_DocumentIsRootChains ==
  Alive =>
    generatedCode
      = Join(Filter([i \in 1..Len(Roots(graph)) |->
                       Traverse(graph, Roots(graph)[i], <<>>, {})],
                    NonEmpty),
             NL \o NL)

\* C3, its case: two roots with text and a node that is no root
C3_TwoRootsAndAFollower ==
  /\ Alive
  /\ Len(Roots(graph)) = 2
  /\ Len(graph.nodes) > 2
  /\ \A i, j \in 1..Len(graph.nodes) :
       graph.nodes[i].id = graph.nodes[j].id => i = j
  /\ Traverse(graph, Roots(graph)[1], <<>>, {}) # <<>>
  /\ generatedCode = Traverse(graph, Roots(graph)[1], <<>>, {}) \o NL \o NL
                     \o Traverse(graph, Roots(graph)[2], <<>>, {})

\* the keys of a node at which values are resolved: its stored keys and the
\* keys of its data inputs
ValueKeys(n) ==
  DOMAIN n.values
  \cup {s.name : s \in {x \in Range(Handles(n).inputs) : x.type = "data"}}

\* C4: resolve(node, key) is node.values[key] when no connection enters the
\* socket of the key; through a connection whose source node exists it is the
\* value the source stores under <source socket key>_result when the source
\* is an Evaluate JS Code node, and otherwise the resolution, on the source,
\* of the key the source socket names.
C4_ResolveFollowsConnections ==
  \A n \in Range(graph.nodes) :
    \A k \in ValueKeys(n) :
      LET c == ConnectionsTo(graph, n.id \o Dash \o k)
          src == IF c = Null THEN Null ELSE NodeMapGet(graph, c[1].fromNode)
          srcKey == RemoveFirst(c[1].fromSocket, c[1].fromNode \o Dash)
          v == GetSocketValue(graph, n, k, {})
      IN /\ c = Null => v = ValGet(n.values, k)
         /\ (c # Null /\ src # Null) =>
              IF NodeDef(src[1]).command = EvalCommand
              THEN v = ValGet(src[1].values, srcKey \o Us \o <<"result">>)
              ELSE v = GetSocketValue(graph, src[1], srcKey, {})

\* C4, its case: a statement fed, through another statement, by an Evaluate
\* JS Code node whose code is 1+1: both resolve to the stored result 2
C4_ResultThroughAChain ==
  /\ Alive
  /\ \E a, b, e \in Range(graph.nodes) :
       /\ NodeDef(e).command = EvalCommand
       /\ ValGet(e.values, CodeKey) = StrV(<<"1", "+", "1">>)
       /\ ConnectionsTo(graph, b.id \o Dash \o TextKey)
            = Just(Connection(Socket(e.id, CodeKey, <<>>, "", "", ""),
                              Socket(b.id, TextKey, <<>>, "", "", "")))
       /\ ConnectionsTo(graph, a.id \o Dash \o TextKey)
            = Just(Connection(Socket(b.id, TextKey, <<>>, "", "", ""),
                              Socket(a.id, TextKey, <<>>, "", "", "")))
       /\ GetSocketValue(graph, a, TextKey, {}) = StrV(<<"2">>)
       /\ BuildNodeCode(graph, a, <<>>, {}) = <<"Show", " ", "\"", "2", "\"">>

\* whether a connection is dangling: its source node is not in the graph, or
\* the source node, collapsed or expanded, does not have the source socket
Dangling(g, c) ==
  \/ NodeMapGet(g, c.fromNode) = Null
  \/ /\ NodeMapGet(g, c.fromNode) # Null
     /\ ~\E s \in Range(Handles([NodeMapGet(g, c.fromNode)[1]
                                   EXCEPT !.isExpanded = TRUE]).outputs) :
           s.id = c.fromSocket

\* C5: dangling connections fail soft: when the connection into the socket
\* of a key names a source node that is not in the graph, or a source socket
\* the source node does not have, the key resolves to the local value of the
\* consuming node, and generation completes.
C5_DanglingResolvesToLocalValue ==
  \A n \in Range(graph.nodes) :
    \A k \in ValueKeys(n) :
      LET c == ConnectionsTo(graph, n.id \o Dash \o k)
      IN (c # Null /\ Dangling(graph, c[1])) =>
           /\ GetSocketValue(graph, n, k, {}) = ValGet(n.values, k)
           /\ generatedCode # ThrewText

(***************************************************************************)
(* Properties of the walk of one node's arguments                          *)
(***************************************************************************)
\* the arguments of the command of a node with their positions, the key the
\* walker gives each and the text the code generator renders for each
ArgAt(n, i) == NodeDef(n).arguments[i]
PrefixAt(i) == Ix(i - 1) \o Us
KeyAt(n, i) == PrefixAt(i) \o GetIdentifier(ArgAt(n, i))
PartOf(g, n, i) == Walk("code", g, n, ArgAt(n, i), PrefixAt(i), <<>>, {})

\* the enabled flag of an optional argument: for a keyword the value stored
\* under its own key, for any other argument the value under <key>_enabled
FlagOf(n, i) ==
  Truthy(ValGet(n.values,
                IF ArgAt(n, i).type = "keyword" THEN KeyAt(n, i)
                ELSE KeyAt(n, i) \o Us \o <<"enabled">>))

\* the line of the node built without the text of its argument at i
LineWithout(g, n, i) ==
  CodeLine(NodeDef(n), <<>>,
           Flat([j \in 1..Len(NodeDef(n).arguments) |->
                   IF j = i THEN Null ELSE PartOf(g, n, j)]))

OptionalLeaves(n) ==
  {i \in 1..Len(NodeDef(n).arguments) :
     /\ ArgAt(n, i).optional
     /\ ArgAt(n, i).type \in PrimTypes \cup {"keyword"}}

DataSockets(n, key, io) ==
  {s \in Range(IF io = "input" THEN Handles(n).inputs ELSE Handles(n).outputs) :
     s.type = "data" /\ s.name = key}

\* C7: optionality does not suppress argument sockets: on an expanded node an
\* optional primitive whose enabled flag is false still has its input and its
\* output data socket.
C7_DisabledOptionalKeepsSockets ==
  \A n \in Range(graph.nodes) :
    \A i \in OptionalLeaves(n) :
      (n.isExpanded /\ ArgAt(n, i).type \in PrimTypes /\ ~FlagOf(n, i)) =>
        /\ DataSockets(n, KeyAt(n, i), "input") # {}
        /\ DataSockets(n, KeyAt(n, i), "output") # {}

\* the optional choices among the arguments of the command of a node
OptionalChoices(n) ==
  {i \in 1..Len(NodeDef(n).arguments) :
     ArgAt(n, i).optional /\ ArgAt(n, i).type = "choice"}

\* what each consumer of the walker gets from the argument at i
SocketsOf(n, i) ==
  Walk("sockets", EmptyGraph, n, ArgAt(n, i), PrefixAt(i), <<>>, {})
ReadsAt(g, n, i) == Walk("reads", g, n, ArgAt(n, i), PrefixAt(i), <<>>, {})
ControlsOf(g, n, i) == Walk("ui", g, n, ArgAt(n, i), PrefixAt(i), <<>>, {})

\* C8: for an optional choice whose stored selection is the none-sentinel
\* __none__ the walker descends into no option: the code generator renders
\* no text for the choice, no value is resolved and no socket is projected
\* under it, and the line of the node is the line without the choice.
C8_NoneSelectsNothing ==
  \A n \in Range(graph.nodes) :
    \A i \in OptionalChoices(n) :
      ValGet(n.values, KeyAt(n, i)) = StrV(NoneSentinel) =>
        /\ PartOf(graph, n, i) = Null
        /\ ReadsAt(graph, n, i) = Just(<<>>)
        /\ SocketsOf(n, i) = Just(<<>>)
        /\ \A c \in Range(ControlsOf(graph, n, i)[1]) : c.key = KeyAt(n, i)
        /\ ~\E s \in Range(Handles(n).inputs \o Handles(n).outputs) :
              StartsWith(s.name, KeyAt(n, i))
        /\ BuildNodeCode(graph, n, <<>>, {}) = LineWithout(graph, n, i)

\* C8, its case: the none-sentinel selected again after an option was
\* selected and a text typed into its field; the text stays stored and is
\* not rendered
C8_NoneAfterAnOption ==
  \E n \in Range(graph.nodes) :
    /\ n.type = "Pick"
    /\ ValGet(n.values, ModeKey) = StrV(NoneSentinel)
    /\ ValGet(n.values, ModeKey \o <<"_", "1", "_", "value">>) = StrV(<<"hi">>)
    /\ BuildNodeCode(graph, n, <<>>, {}) = <<"Pick", " ", "\"", "\"">>
    /\ ~Includes(generatedCode, <<"hi">>)

\* the names of the data sockets of a list of sockets, in order
DataNames(sockets) ==
  LET data == Filter(sockets, LAMBDA x : x.type = "data")
  IN [k \in 1..Len(data) |-> data[k].name]

\* the keys at which the code generator resolves primitive values, in order
ResolvedKeys(g, n) == Flat(ArgumentWalker("reads", g, n, <<>>, {}))

KeysUnderOption(g, n, i, o) ==
  Range(ReadsAt(g, [n EXCEPT !.values =
                      SetKey(@, KeyAt(n, i),
                             StrV(GetIdentifier(ArgAt(n, i).options[o])))],
                i)[1])

\* C10: key uniqueness: the children of two different options of the same
\* choice receive different keys, so that a value written while one option is
\* selected is never read as the value of a child of another option.
C10_OptionsHaveDistinctKeys ==
  \A n \in Range(graph.nodes) :
    \A i \in 1..Len(NodeDef(n).arguments) :
      ArgAt(n, i).type = "choice" =>
        \A o1, o2 \in 1..Len(ArgAt(n, i).options) :
          o1 # o2 =>
            KeysUnderOption(graph, n, i, o1)
              \cap KeysUnderOption(graph, n, i, o2) = {}

(***************************************************************************)
(* Properties of the node factory                                          *)
(***************************************************************************)
\* the keys of a default map that start with a prefix
KeysUnder(dv, prefix) == {k \in DOMAIN dv : StartsWith(k, prefix)}

\* whether the default map of a command counts the repeatable or array
\* argument at i: the count entry is 0 for an optional argument and 1
\* otherwise, under the key the factory or the walker gives the argument, and
\* the map holds entries of exactly that many items
CountedAt(type, i, listKey) ==
  LET dv == DefaultValues(type)
      arg == JsonDefs[type].arguments[i]
      countKey == listKey \o Us \o <<"count">>
  IN /\ countKey \in DOMAIN dv
     /\ dv[countKey] = NumV(IF arg.optional THEN 0 ELSE 1)
     /\ \A j \in 0..MaxCount :
          (KeysUnder(dv, listKey \o Us \o Ix(j) \o Us) # {})
            <=> (j < dv[countKey].n)

Counted(type, i) ==
  \/ CountedAt(type, i, GetIdentifier(JsonDefs[type].arguments[i]))
  \/ CountedAt(type, i,
               PrefixAt(i) \o GetIdentifier(JsonDefs[type].arguments[i]))

Listed(type) ==
  {i \in 1..Len(JsonDefs[type].arguments) :
     \/ JsonDefs[type].arguments[i].repeatable
     \/ JsonDefs[type].arguments[i].type = "Array"}

\* C11: createNodeDefinition gives every repeatable or array argument of any
\* kind, a group included, a count entry of 0 when the argument is optional
\* and of 1 otherwise, and default entries of exactly that many items.
C11_EveryListIsCounted ==
  \A n \in Range(graph.nodes) : \A i \in Listed(n.type) : Counted(n.type, i)

\* C11 without the groups: the repeatable primitives and subcommands and the
\* arrays are counted
C11_ListsOtherThanGroupsAreCounted ==
  \A n \in Range(graph.nodes) :
    \A i \in Listed(n.type) :
      JsonDefs[n.type].arguments[i].type # "group" => Counted(n.type, i)

\* whether the default map of a command holds the defaults of its optional
\* or choice argument at i, the argument being stored under key: the enabled
\* flag of an optional argument that is not a choice is false, an optional
\* choice selects the none-sentinel and has no default of any option, a
\* choice that is not optional selects its first option and has one default
\* for each member of the content of that option
DefaultedAt(type, i, key) ==
  LET dv == DefaultValues(type)
      arg == JsonDefs[type].arguments[i]
  IN /\ (arg.optional /\ arg.type # "choice") =>
          /\ EnabledKey(arg, key) \in DOMAIN dv
          /\ dv[EnabledKey(arg, key)] = BoolV(FALSE)
     /\ (arg.optional /\ arg.type = "choice") =>
          /\ key \in DOMAIN dv
          /\ dv[key] = StrV(NoneSentinel)
          /\ KeysUnder(dv, key \o Us) = {}
     /\ (~arg.optional /\ arg.type = "choice" /\ Len(arg.options) > 0) =>
          /\ key \in DOMAIN dv
          /\ dv[key] = StrV(GetIdentifier(arg.options[1]))
          /\ Cardinality(KeysUnder(dv, key \o Us))
               = Len(arg.options[1].content)

Defaulted(type, i) ==
  \/ DefaultedAt(type, i, GetIdentifier(JsonDefs[type].arguments[i]))
  \/ DefaultedAt(type, i,
                 PrefixAt(i) \o GetIdentifier(JsonDefs[type].arguments[i]))

\* C12: createNodeDefinition defaults the enabled flag of every optional
\* argument other than a choice, an optional group included, to false; an
\* optional choice to the none-sentinel with no default of any option; a
\* choice that is not optional to its first option with the defaults of the
\* content of that option.
C12_OptionalsAndChoicesAreDefaulted ==
  \A n \in Range(graph.nodes) :
    \A i \in 1..Len(JsonDefs[n.type].arguments) : Defaulted(n.type, i)

\* C12 without the groups: the optional primitives and keywords and the
\* choices are defaulted
C12_OtherThanGroupsAreDefaulted ==
  \A n \in Range(graph.nodes) :
    \A i \in 1..Len(JsonDefs[n.type].arguments) :
      JsonDefs[n.type].arguments[i].type # "group" => Defaulted(n.type, i)

(***************************************************************************)
(* Properties of the graph under the handlers of the editor                *)
(***************************************************************************)
\* C13: node identities are unique: after any sequence of node creations,
\* node deletions and project loads no two nodes of the graph have the same
\* id.
C13_NodeIdsAreUnique ==
  \A i, j \in 1..Len(graph.nodes) :
    i # j => graph.nodes[i].id # graph.nodes[j].id

(***************************************************************************)
(* Properties of the Socket Projector                                      *)
(***************************************************************************)
\* the sockets of a projection other than the pair exec_in / exec_out of the
\* command: the sockets derived from the arguments
ArgumentSockets(sockets) ==
  Filter(sockets, LAMBDA s : s.name \notin {ExecIn, ExecOut})

Expanded(n) == [n EXCEPT !.isExpanded = TRUE]

\* C14: socket projection gating: a node of an exec-capable command has
\* exactly one exec_in input and one exec_out output whether or not it is
\* expanded; the sockets derived from its arguments are projected if and only
\* if the node is expanded or its command declares no arguments: a collapsed
\* node with arguments has none of them, and has them all again once expanded.
C14_ArgumentSocketsAreGated ==
  \A n \in Range(graph.nodes) :
    ExecCapable(NodeDef(n)) =>
      /\ Cardinality({i \in 1..Len(Handles(n).inputs) :
                        Handles(n).inputs[i].name = ExecIn}) = 1
      /\ Cardinality({i \in 1..Len(Handles(n).outputs) :
                        Handles(n).outputs[i].name = ExecOut}) = 1
      /\ IF n.isExpanded \/ Len(NodeDef(n).arguments) = 0
         THEN /\ ArgumentSockets(Handles(n).inputs)
                   = ArgumentSockets(Handles(Expanded(n)).inputs)
              /\ ArgumentSockets(Handles(n).outputs)
                   = ArgumentSockets(Handles(Expanded(n)).outputs)
         ELSE /\ ArgumentSockets(Handles(n).inputs) = <<>>
              /\ ArgumentSockets(Handles(n).outputs) = <<>>

\* C14, its case: a collapsed node whose command has arguments: its
\* projection is the pair of exec sockets, the projection of the same node
\* expanded holds the sockets of its arguments as well
C14_CollapsedNodeWithArguments ==
  \E n \in Range(graph.nodes) :
    /\ n.type = "Move" /\ ~n.isExpanded /\ ops > 0
    /\ Len(Handles(n).inputs) = 1 /\ Len(Handles(n).outputs) = 1
    /\ Len(ArgumentSockets(Handles(Expanded(n)).inputs)) = 4

\* the stored count of the list of argument i of a node
StoredCount(n, i) ==
  CountOf(GetValue("sockets", graph, n, KeyAt(n, i) \o Us \o <<"count">>))

\* the key of item k (from 0) of the list of argument i of a node
ItemKey(n, i, k) ==
  KeyAt(n, i) \o Us \o Ix(k) \o Us \o GetIdentifier(ArgAt(n, i))

\* C15: a repeatable raw-code argument with stored count n >= 1 on an
\* expanded node has n input and n output data sockets, the i-th input
\* labelled 'Code i In' and the i-th output 'Code i Out'.
C15_RawCodeItemsHaveNumberedSockets ==
  \A n \in Range(graph.nodes) :
    \A i \in 1..Len(NodeDef(n).arguments) :
      (/\ n.isExpanded
       /\ ArgAt(n, i).type = "RawCode" /\ ArgAt(n, i).repeatable
       /\ StoredCount(n, i) >= 1) =>
        \A k \in 1..StoredCount(n, i) :
          /\ \E s \in DataSockets(n, ItemKey(n, i, k - 1), "input") :
               s.label = <<"Code ", ToString(k), " In">>
          /\ \E s \in DataSockets(n, ItemKey(n, i, k - 1), "output") :
               s.label = <<"Code ", ToString(k), " Out">>
          /\ Cardinality(DataSockets(n, ItemKey(n, i, k - 1), "input")) = 1
          /\ Cardinality(DataSockets(n, ItemKey(n, i, k - 1), "output")) = 1

\* C15, what the code does: an expanded node with a list of raw-code items
\* has no data socket at all
C15_RawCodeItemsHaveNoSockets ==
  \A n \in Range(graph.nodes) :
    (n.type = "Code" /\ n.isExpanded) =>
      /\ \A s \in Range(Handles(n).inputs) : s.type = "exec"
      /\ \A s \in Range(Handles(n).outputs) : s.type = "exec"

(***************************************************************************)
(* Properties of the lists of a node under handleRepeatableChange          *)
(***************************************************************************)
\* the lists the panel offers to grow: each with its node, the values of the
\* node and the key of the list
Lists == Controls(graph, {"add"})

ListCountKey(e) == e.control.key \o Us \o <<"count">>
ListCount(e) == CountOf(ValGet(e.values, ListCountKey(e)))
\* the prefix of the keys of the item that an add to the list creates
NewItemPrefix(e) == e.control.key \o Us \o Ix(ListCount(e)) \o Us

AfterAdd(e) == HandleRepeatableChange(graph, e.nodeId, e.control.key, "add")

\* the graphs after the add and any one write to an input of the new item
AfterAddAndWrites(e) ==
  {AfterAdd(e)} \cup
  {HandleValueChange(AfterAdd(e), e.nodeId, c.control.key, StrV(text)) :
     c \in {x \in Controls(AfterAdd(e), {"input"}) :
              /\ x.nodeId = e.nodeId
              /\ StartsWith(x.control.key, NewItemPrefix(e))},
     text \in Texts}

AfterRemove(g, e) == HandleRepeatableChange(g, e.nodeId, e.control.key, "remove")

ValuesIn(g, nodeId) == (CHOOSE n \in Range(g.nodes) : n.id = nodeId).values

HasItemKeys(values, prefix) == \E k \in DOMAIN values : StartsWith(k, prefix)

C17_OneConnectionPerInput ==
  \A i, j \in 1..Len(graph.connections) :
    i # j => graph.connections[i].toSocket # graph.connections[j].toSocket

\* a sequence without its element at index i
Without(s, i) == [k \in 1..(Len(s) - 1) |-> IF k < i THEN s[k] ELSE s[k + 1]]

Touches(c, nodeId) == c.fromNode = nodeId \/ c.toNode = nodeId

\* deleteNode of the node at index i of the graph removes that node and the
\* connections from it or to it, and nothing else
DeletesOnlyNodeAt(i) ==
  LET nodeId == graph.nodes[i].id
      after == DeleteNode(graph, nodeId)
  IN /\ after.nodes = Without(graph.nodes, i)
     /\ after.connections
          = Filter(graph.connections, LAMBDA c : ~Touches(c, nodeId))
     /\ \A c \in Range(after.connections) : ~Touches(c, nodeId)

\* C18: deleteNode(id) removes exactly the node with that id and exactly the
\* connections whose fromNode or toNode is id; afterwards no connection
\* references id, and every other node and every other connection is
\* unchanged.
C18_DeleteRemovesOneNodeAndItsConnections ==
  \A i \in 1..Len(graph.nodes) : DeletesOnlyNodeAt(i)

\* C18, what the code does: the claim holds of every node whose id no other
\* node of the graph has
C18_DeleteRemovesTheNodeOfAUniqueId ==
  \A i \in 1..Len(graph.nodes) :
    (\A j \in 1..Len(graph.nodes) :
       j # i => graph.nodes[j].id # graph.nodes[i].id)
      => DeletesOnlyNodeAt(i)

(***************************************************************************)
(* Properties of the text of a subcommand and of the line of a node        *)
(***************************************************************************)
\* the arguments of a node that are plain subcommands
Subcommands(n) ==
  {i \in 1..Len(NodeDef(n).arguments) :
     /\ ArgAt(n, i).type = "subcommand"
     /\ ~ArgAt(n, i).optional /\ ~ArgAt(n, i).repeatable}

\* the text of the array parameter of subcommand i, Null when it declares none
SubArrayText(n, i) ==
  IF ArgAt(n, i).array_parameter # <<>>
  THEN Walk("code", graph, n,
            [ArgAt(n, i).array_parameter[1] EXCEPT !.name = ArrayParam],
            KeyAt(n, i) \o Us, <<>>, {})
  ELSE Null

\* the texts of the arguments of subcommand i
SubArgTexts(n, i) ==
  Flat([j \in 1..Len(ArgAt(n, i).arguments) |->
          Walk("code", graph, n, ArgAt(n, i).arguments[j],
               KeyAt(n, i) \o Us \o Ix(j - 1) \o Us, <<>>, {})])

SubHasBlock(n, i) ==
  \E j \in 1..Len(ArgAt(n, i).arguments) :
    ArgAt(n, i).arguments[j].type = "block"

\* name, bracketed array-parameter text, argument texts: after a space and
\* joined by spaces when an argument is a block, else in parentheses and
\* joined by ', '
SubcommandRule(n, i) ==
  PartOf(graph, n, i) =
    Just(ArgAt(n, i).name
         \o (IF SubArrayText(n, i) # Null /\ SubArrayText(n, i)[1] # <<>>
             THEN <<"[">> \o SubArrayText(n, i)[1] \o <<"]">> ELSE <<>>)
         \o (IF SubArgTexts(n, i) = <<>> THEN <<>>
             ELSE IF SubHasBlock(n, i)
             THEN <<" ">> \o Join(SubArgTexts(n, i), <<" ">>)
             ELSE <<"(">> \o Join(SubArgTexts(n, i), <<", ">>) \o <<")">>))

\* the text of the one child of the block of MoveTo
MoveToChildText(n) ==
  Walk("code", graph, n, ArgAt(n, 1).arguments[1].content[1],
       MoveToKey \o <<"_", "0", "_", "block", "_", "0", "_">>, <<>>, {})

\* MoveTo with array-parameter values 5,10 and a block of one child that has
\* a text
IsMoveToExample(n) ==
  /\ n.type = "Move"
  /\ SubArrayText(n, 1) = Just(<<"5,10">>)
  /\ MoveToChildText(n) # Null /\ MoveToChildText(n)[1] # <<>>

NodeArrayText(n) ==
  IF NodeDef(n).array_parameter # <<>>
  THEN Walk("code", graph, n,
            [NodeDef(n).array_parameter[1] EXCEPT !.name = ArrayParam],
            <<>>, <<>>, {})
  ELSE Null

\* base or command literal, bracketed array-parameter text, subcommand suffix
LineHead(n) ==
  (IF NodeDef(n).hasBase THEN NodeDef(n).base ELSE NodeDef(n).command)
  \o (IF NodeArrayText(n) # Null /\ NodeArrayText(n)[1] # <<>>
      THEN <<"[">> \o NodeArrayText(n)[1] \o <<"]">> ELSE <<>>)
  \o NodeDef(n).subcommand

\* the non-empty argument texts of a node joined by single spaces
LineArguments(n) ==
  Join(Filter(Flat([i \in 1..Len(NodeDef(n).arguments) |-> PartOf(graph, n, i)]),
              NonEmpty),
       <<" ">>)

\* the arguments of a node that are non-optional keywords
Keywords(n) ==
  {i \in 1..Len(NodeDef(n).arguments) :
     ArgAt(n, i).type = "keyword" /\ ~ArgAt(n, i).optional}

IsWaitExample(n) ==
  n.type = "Wait" /\ ValGet(n.values, WaitKey) = StrV(<<"30">>)

FailingCode(n) ==
  {i \in 1..Len(NodeDef(n).arguments) :
     /\ ArgAt(n, i).type = "JSCode" /\ ~ArgAt(n, i).optional
     /\ NodeDef(n).command # EvalCommand
     /\ ValGet(n.values, KeyAt(n, i)).t = "str"
     /\ ValGet(n.values, KeyAt(n, i)).s # <<>>
     /\ ~EvalJS(ValGet(n.values, KeyAt(n, i)).s).ok}

\* C21: embedded-code failure is local: when the code text of a JSCode
\* primitive on a node other than 'Evaluate JS Code' fails to evaluate, the
\* text of that argument is the comment-style error marker, which the line of
\* the node holds at the position of the argument, the other arguments
\* rendered as they are otherwise.
C21_FailingCodeRendersItsMarker ==
  \A n \in Range(graph.nodes) :
    \A i \in FailingCode(n) :
      /\ PartOf(graph, n, i) =
           Just(<<"/* Error evaluating JS: ">>
                \o EvalJS(ValGet(n.values, KeyAt(n, i)).s).s \o <<" */">>)
      /\ BuildNodeCode(graph, n, <<>>, {}) =
           LineHead(n) \o <<" ">> \o LineArguments(n)
      /\ Includes(BuildNodeCode(graph, n, <<>>, {}),
                  <<"/* Error evaluating JS: ">>)

\* C21, what the code does: embedded code on a node other than 'Evaluate JS
\* Code' is never rendered, whether its evaluation fails or not
C21_EmbeddedCodeIsNotRendered ==
  \A n \in Range(graph.nodes) :
    \A i \in 1..Len(NodeDef(n).arguments) :
      ArgAt(n, i).type = "JSCode" => PartOf(graph, n, i) = Null

(***************************************************************************)
(* Properties of the keys of the default map                               *)
(***************************************************************************)
\* the instance createNodeInstance makes of the command of a node
Fresh(n) == CreateNodeInstance(n.type, 0)

\* the arguments of a command that are plain primitives
PlainPrimitives(type) ==
  {i \in 1..Len(JsonDefs[type].arguments) :
     /\ JsonDefs[type].arguments[i].type \in PrimTypes
     /\ ~JsonDefs[type].arguments[i].optional
     /\ ~JsonDefs[type].arguments[i].repeatable}

\* C22: default keys agree with walker keys: every key at which the walker
\* resolves a value on a fresh instance is a key of the default map, a
\* top-level primitive at argument index i being defaulted under the key
\* it is read under; and every key of the default map is a key of the walker:
\* the key of the array parameter or a key under the index of an argument.
C22_DefaultKeysAreWalkerKeys ==
  \A n \in Range(graph.nodes) :
    /\ Range(ResolvedKeys(EmptyGraph, Fresh(n))) \subseteq DOMAIN DefaultValues(n.type)
    /\ \A i \in PlainPrimitives(n.type) :
         KeyAt(n, i) \in DOMAIN DefaultValues(n.type)
    /\ \A k \in DOMAIN DefaultValues(n.type) :
         \/ k = ArrayParam
         \/ \E i \in 1..Len(NodeDef(n).arguments) : StartsWith(k, PrefixAt(i))

\* C22, what the code does: a top-level primitive is defaulted under its name
\* and read under its index and its name
C22_TopLevelDefaultsAreUnderTheName ==
  \A n \in Range(graph.nodes) :
    \A i \in PlainPrimitives(n.type) :
      /\ GetIdentifier(ArgAt(n, i)) \in DOMAIN DefaultValues(n.type)
      /\ KeyAt(n, i) \notin DOMAIN DefaultValues(n.type)
      /\ KeyAt(n, i) \in Range(ResolvedKeys(EmptyGraph, Fresh(n)))

(***************************************************************************)
(* Properties of the traversal of the flow                                 *)
(***************************************************************************)
\* the connections that leave the exec_out socket of a node, in list order
FlowOut(g, n) == ConnectionsFrom(g, n.id \o Dash \o ExecOut)

\* the connections of a fan-out that are not its first
Spare(g) ==
  {c \in Range(g.connections) :
     /\ EndsWith(c.fromSocket, Dash \o ExecOut)
     /\ c # ConnectionsFrom(g, c.fromSocket)[1]}

\* the graph without the connections that leave the exec_out socket of n
\* after the first
Pruned(g, n) ==
  [g EXCEPT !.connections =
     Filter(@, LAMBDA c : c.fromSocket # n.id \o Dash \o ExecOut
                          \/ c = FlowOut(g, n)[1])]

\* the statement at index i is reachable only through connections of a
\* fan-out that are not its first: every connection to it is one, and no
\* connection takes a value from it
OnlyThroughSpare(g, i) ==
  /\ g.nodes[i].type = "Show"
  /\ \A j \in 1..Len(g.nodes) : j # i => g.nodes[j].id # g.nodes[i].id
  /\ \E c \in Spare(g) : c.toNode = g.nodes[i].id
  /\ \A c \in Range(g.connections) :
       /\ c.toNode = g.nodes[i].id =>
            c \in Spare(g) /\ c.toSocket = g.nodes[i].id \o Dash \o ExecIn
       /\ c.fromNode = g.nodes[i].id =>
            c.fromSocket = g.nodes[i].id \o Dash \o ExecOut

Marker == <<"#marker#">>

\* the graph with the text of the statement at index i replaced by a marker
Marked(g, i) ==
  [g EXCEPT !.nodes[i].values = SetKey(@, TextKey, StrV(Marker))]

\* C23: flow fan-out is tolerated: when several connections leave the same
\* exec_out socket, the traversal from the node is the traversal of the graph
\* without the connections after the first, error or not, and a statement
\* reachable only through the other connections contributes no text to the
\* document.
C23_FanOutFollowsTheFirst ==
  /\ \A n \in Range(graph.nodes) :
       Len(FlowOut(graph, n)) >= 2 =>
         Traverse(graph, n, <<>>, {}) = Traverse(Pruned(graph, n), n, <<>>, {})
  /\ \A i \in 1..Len(graph.nodes) :
       OnlyThroughSpare(graph, i) =>
         /\ Generate(Marked(graph, i)) = Generate(graph)
         /\ ~Includes(Generate(Marked(graph, i)), Marker)

\* C23, its case: a loaded project in which the flow output of a statement
\* is connected to two statements: the document holds the first of them and
\* not the second
C23_SecondBranchIsNotInTheDocument ==
  /\ ops > 0 /\ ~crashed
  /\ \E n \in Range(graph.nodes) : Len(FlowOut(graph, n)) >= 2
  /\ \E i \in 1..Len(graph.nodes) :
       /\ OnlyThroughSpare(graph, i)
       /\ ValGet(graph.nodes[i].values, TextKey) = StrV(<<"c">>)
  /\ generatedCode = <<"Show", " ">> \o Quote \o <<"a">> \o Quote \o NL
                     \o <<"Show", " ">> \o Quote \o <<"b">> \o Quote

\* the arguments of a node that are executable blocks
ExecBlocks(n) ==
  {i \in 1..Len(NodeDef(n).arguments) :
     /\ ArgAt(n, i).type = "block" /\ ~ArgAt(n, i).hasContent
     /\ ~ArgAt(n, i).optional /\ ~ArgAt(n, i).repeatable}

\* the node connected from the flow-out socket of block i of a node
BlockTarget(g, n, i) ==
  FirstTarget(g, ConnectionsFrom(g, n.id \o Dash \o KeyAt(n, i)))

\* every line of a text starts two spaces deep
LinesAreDeeper(text) ==
  /\ Len(text) > 0 => text[1] = "  "
  /\ \A k \in 1..Len(text) :
       text[k] = "\n" => (k < Len(text) /\ text[k + 1] = "  ")

\* the indices of the nodes of a graph that are a given node
IndicesOf(g, node) == {j \in 1..Len(g.nodes) : g.nodes[j] = node}

\* block i of a node renders as braces around the chain of its target, two
\* spaces deeper, or as '{}'
BlockWrapsItsChain(n, i) ==
  IF BlockTarget(graph, n, i) = Null THEN PartOf(graph, n, i) = Just(<<"{}">>)
  ELSE /\ PartOf(graph, n, i) =
            Just(<<"{">> \o NL
                 \o Traverse(graph, BlockTarget(graph, n, i)[1], <<"  ">>, {})
                 \o NL \o <<"}">>)
       /\ ThrewTok \notin
            Range(Traverse(graph, BlockTarget(graph, n, i)[1], <<"  ">>, {})) =>
            LinesAreDeeper(
              Traverse(graph, BlockTarget(graph, n, i)[1], <<"  ">>, {}))

\* the target of block i of a node is no root of the document
NotARoot(n, i) ==
  \A j \in 1..Len(StartNodes(graph)) :
    StartNodes(graph)[j].id # BlockTarget(graph, n, i)[1].id

\* a statement that is the target of block i of a node is emitted once at
\* most: its text, which no connection takes to another node, occurs once at
\* most in the document
EmittedOnce(n, i) ==
  \A j \in IndicesOf(graph, BlockTarget(graph, n, i)[1]) :
    (/\ graph.nodes[j].type = "Show"
     /\ \A c \in Range(graph.connections) :
          c.fromNode = graph.nodes[j].id =>
            c.fromSocket = graph.nodes[j].id \o Dash \o ExecOut
     /\ Generate(Marked(graph, j)) # ThrewText) =>
      Cardinality(Occurrences(Generate(Marked(graph, j)), Marker)) <= 1

\* C24: an executable block renders as braces wrapping the flow chain that
\* starts at the node connected from its flow-out socket, every line of the
\* chain two spaces deeper than the line of the owner, and as '{}' when
\* nothing is connected; the nodes of the chain are emitted only inside the
\* braces and never additionally as a top-level chain.
C24_BlockChainOnlyInsideBraces ==
  \A n \in Range(graph.nodes) :
    \A i \in ExecBlocks(n) :
      /\ BlockWrapsItsChain(n, i)
      /\ BlockTarget(graph, n, i) # Null => NotARoot(n, i) /\ EmittedOnce(n, i)

\* C24, what the code does: the rendering holds, and the target of a block
\* is no root and is emitted once at most when the connection of the block
\* ends at its exec_in, no other connection does and no two nodes of the graph
\* have the same id
C24_BlockChainOfASingleEntry ==
  \A n \in Range(graph.nodes) :
    \A i \in ExecBlocks(n) :
      /\ BlockWrapsItsChain(n, i)
      /\ (/\ BlockTarget(graph, n, i) # Null
          /\ Cardinality({k \in 1..Len(graph.connections) :
                            graph.connections[k].toSocket =
                              BlockTarget(graph, n, i)[1].id \o Dash \o ExecIn})
               = 1
          /\ ConnectionsFrom(graph, n.id \o Dash \o KeyAt(n, i))[1].toSocket
               = BlockTarget(graph, n, i)[1].id \o Dash \o ExecIn
          /\ \A j, k \in 1..Len(graph.nodes) :
               j # k => graph.nodes[j].id # graph.nodes[k].id)
           => NotARoot(n, i) /\ EmittedOnce(n, i)

(***************************************************************************)
(* Properties of the bracketed array-parameter                             *)
(***************************************************************************)
\* the subcommands of a node that declare an array-parameter
BracketedSubcommands(n) ==
  {i \in Subcommands(n) : ArgAt(n, i).array_parameter # <<>>}

\* the line of a node by the rule of its parts: the head with the
\* array-parameter text in brackets, then the texts of its arguments
LineByRule(n) ==
  IF LineArguments(n) = <<>> THEN LineHead(n)
  ELSE IF LineHead(n) = <<>> THEN LineArguments(n)
  ELSE LineHead(n) \o <<" ">> \o LineArguments(n)

\* the array-parameter of a node, or of its subcommand i, renders nothing
NodeArrayIsSilent(n) ==
  NodeDef(n).array_parameter # <<>> /\ NodeArrayText(n) = Null
SubArrayIsSilent(n, i) ==
  i \in BracketedSubcommands(n) /\ SubArrayText(n, i) = Null

\* C25: the bracketed segment of a line is always the text of the
\* array-parameter and never the text of a regular argument: when the
\* array-parameter of a command or of a subcommand renders nothing, no
\* bracket is emitted and every regular argument is rendered in its normal
\* position.
C25_BracketHoldsTheArrayParameter ==
  \A n \in Range(graph.nodes) :
    /\ NodeDef(n).array_parameter # <<>> =>
         BuildNodeCode(graph, n, <<>>, {}) = LineByRule(n)
    /\ \A i \in BracketedSubcommands(n) : SubcommandRule(n, i)

\* C25, what the code does: the rule holds of a command and of a subcommand
\* whose array-parameter renders a text, the empty text included, and of
\* one whose array-parameter renders nothing and that has no argument text
C25_BracketOfAnArrayParameterThatRenders ==
  \A n \in Range(graph.nodes) :
    /\ (/\ NodeDef(n).array_parameter # <<>>
        /\ (NodeArrayText(n) # Null
            \/ Flat([i \in 1..Len(NodeDef(n).arguments) |->
                       PartOf(graph, n, i)]) = <<>>)) =>
         BuildNodeCode(graph, n, <<>>, {}) = LineByRule(n)
    /\ \A i \in BracketedSubcommands(n) :
         (SubArrayText(n, i) # Null \/ SubArgTexts(n, i) = <<>>) =>
           SubcommandRule(n, i)

\* C25, the failing case: a disabled array-parameter and a first regular
\* argument with a text
C25_SilentArrayParameterWithArgument ==
  \E n \in Range(graph.nodes) :
    /\ NodeArrayIsSilent(n)
    /\ PartOf(graph, n, 1) = Just(<<"30">>)

(***************************************************************************)
(* Properties of the live evaluation                                       *)
(***************************************************************************)
\* the Evaluate JS Code nodes of the graph
EvalNodes == {n \in Range(graph.nodes) : NodeDef(n).command = EvalCommand}

\* the code of an Evaluate JS Code node as the effect resolves it
ResolvedCode(n) == GetSocketValue(graph, n, CodeKey, {})

\* the stored result of a node is the evaluation of its resolved code
ResultIsCurrent(n) ==
  ValGet(n.values, ResultKey) =
    IF ResolvedCode(n) = Undef \/ IsBlank(ToStr(ResolvedCode(n)))
    THEN StrV(<<>>)
    ELSE StrV(ResultString(EvalFunction(VariablesOf(graph, n, 0),
                                        ToStr(ResolvedCode(n)))))

\* no update is queued and every result is current
LiveAtRest == queued = Null /\ \A n \in EvalNodes : ResultIsCurrent(n)

\* the code of a node is fed, through connections, by its own result
RECURSIVE FedBy(_, _, _)
FedBy(n, m, fuel) ==
  /\ fuel > 0
  /\ \E c \in Range(graph.connections) :
       /\ c.toSocket = m.id \o Dash \o CodeKey
       /\ \E s \in EvalNodes :
            /\ s.id = c.fromNode
            /\ (s = n \/ FedBy(n, s, fuel - 1))
FeedsItself(n) == FedBy(n, n, Len(graph.nodes))

\* C26: the live evaluation comes to rest: while the application is up,
\* after finitely many updates no update is queued and the stored result of
\* every 'Evaluate JS Code' node is the stringified evaluation of its
\* resolved code, the error marker if it fails, '' if the code is empty.
C26_LiveEvaluationComesToRest == <>[](crashed \/ LiveAtRest)

\* C26, what the code does: the live evaluation comes to rest unless the
\* code of an 'Evaluate JS Code' node is fed by its own result
C26_ComesToRestWithoutFeedback ==
  <>[](crashed \/ LiveAtRest \/ \E n \in EvalNodes : FeedsItself(n))

\* C26, a case: an expression fed by the result of another expression, at
\* rest with the result of the evaluation of that result
C26_ChainAtRest ==
  /\ LiveAtRest
  /\ \E n \in EvalNodes, m \in EvalNodes :
       /\ n # m
       /\ ConnectionsTo(graph, m.id \o Dash \o CodeKey) # Null
       /\ ValGet(n.values, ResultKey) = StrV(<<"2">>)
       /\ ValGet(m.values, ResultKey) = StrV(<<"2">>)

\* a key of a value map that holds a result of the live evaluation
IsResultKey(k) == Len(k) > 0 /\ k[Len(k)] = "result"

\* node m is node n but for the results of the live evaluation, which only
\* an Evaluate JS Code node has
SameButResults(n, m) ==
  /\ [m EXCEPT !.values = n.values] = n
  /\ \A k \in DOMAIN n.values \cup DOMAIN m.values :
       ValGet(m.values, k) # ValGet(n.values, k) =>
         IsResultKey(k) /\ NodeDef(n).command = EvalCommand

\* graph h is graph g but for the results of the live evaluation
OnlyResultsDiffer(g, h) ==
  /\ h.connections = g.connections
  /\ Len(h.nodes) = Len(g.nodes)
  /\ \A i \in 1..Len(g.nodes) : SameButResults(g.nodes[i], h.nodes[i])

\* the step that processes the update of the live evaluation
WriteBack == queued # Null /\ queued' = Null

\* C27: the write-back of the live evaluation changes only the '_result'
\* keys of 'Evaluate JS Code' nodes of the graph state it is applied to: an
\* edit, a deletion or a flag toggle applied between the snapshot of the
\* effect and its write-back is still there afterwards.
C27_WriteBackChangesOnlyResults ==
  [][WriteBack => OnlyResultsDiffer(graph, graph')]_vars

\* C27, what the code does: the write-back changes only results when the
\* nodes of the graph are still those of the snapshot of the effect, and it
\* always sets the nodes the effect computed from its snapshot
C27_WriteBackSetsTheNodesOfTheSnapshot ==
  [][WriteBack =>
       /\ graph'.nodes = queued[1].nodes
       /\ graph'.connections = graph.connections
       /\ graph.nodes = queued[1].from => OnlyResultsDiffer(graph, graph')]_vars

\* C27, the failing case: an update is queued and the nodes of the graph are
\* no longer those of its snapshot
C27_EditLandedBeforeTheWriteBack ==
  queued # Null /\ graph.nodes # queued[1].from

(***************************************************************************)
(* Properties of the synchronisation with React Flow                       *)
(***************************************************************************)
\* the synchronisation is at rest: no effect is due, the edges of the flow
\* are the connections of the graph, one to one, and its nodes are the
\* nodes of the graph
Synced ==
  /\ sync.due = {}
  /\ UpdatedConnections(sync.edges) = graph.connections
  /\ sync.edges = FlowEdges(graph)
  /\ sync.nodes = FlowNodes(graph)

UniqueIds(g) ==
  \A i \in 1..Len(g.nodes), j \in 1..Len(g.nodes) :
    g.nodes[i].id = g.nodes[j].id => i = j

\* C28: after a single mutation of the graph (a node added, a value edited,
\* a connection made, a node deleted, a project loaded or imported) the two
\* sync effects reach, in finitely many steps, a state at rest in which the
\* graph is the mutated graph and the edges of React Flow are the
\* connections of the graph, one to one.
C28_SyncComesToRestAtTheMutatedGraph ==
  <>[](Synced /\ graph = sync.asked)

\* C28, what the code does: the synchronisation comes to rest at the
\* mutated graph when the mutation leaves the connections as the flow holds
\* them, or the flow is empty, and the ids of the nodes are unique
C28_SyncOfAnAgreedMutation ==
  <>[](\/ Synced /\ graph = sync.asked
       \/ ~sync.agreed
       \/ ~UniqueIds(sync.asked))

\* C28, a case: after two mutations the graph has connections and the
\* synchronisation is at rest at the graph the last mutation made
C28_ConnectionSynced ==
  /\ Synced /\ graph = sync.asked
  /\ Len(graph.connections) > 0 /\ ops = MaxOps

(***************************************************************************)
(* Properties of the expansion flag                                        *)
(***************************************************************************)
\* the graph with the expansion flags of its nodes set to flags
WithExpansion(g, flags) ==
  [g EXCEPT !.nodes = [i \in 1..Len(g.nodes) |->
                         [g.nodes[i] EXCEPT !.isExpanded = flags[i]]]]

Removable == {e \in Controls(graph, {"remove"}) : ListCount(e) > 0}

\* the step is the removal of the last item of the list
Removes(e) ==
  /\ \E n \in Range(graph'.nodes) : n.id = e.nodeId
  /\ CountOf(ValGet(ValuesIn(graph', e.nodeId), ListCountKey(e)))
       = ListCount(e) - 1

\* the prefix of the sockets of item index of the list
ItemSocketPrefix(e, index) ==
  e.nodeId \o Dash \o e.control.key \o Us \o Ix(index) \o Us

\* the connections of the graph at a socket of item index of the list
ItemConnections(g, e, index) ==
  {c \in Range(g.connections) :
     \/ StartsWith(c.toSocket, ItemSocketPrefix(e, index))
     \/ StartsWith(c.fromSocket, ItemSocketPrefix(e, index))}

\* the graph after a later add to the list, and the node of the list in it
Regrown(g, e) == HandleRepeatableChange(g, e.nodeId, e.control.key, "add")
RegrownNode(g, e) == CHOOSE n \in Range(Regrown(g, e).nodes) : n.id = e.nodeId

\* the keys of item index the code generator resolves after the later add
RegrownKeys(g, e, index) ==
  {k \in Range(ResolvedKeys(Regrown(g, e), RegrownNode(g, e))) :
     StartsWith(k, e.control.key \o Us \o Ix(index) \o Us)}

\* the code generator resolves the key to the node's own value
ResolvesLocally(g, n, k) == GetSocketValue(g, n, k, {}) = ValGet(n.values, k)

\* C30: no stale connection survives a repeatable removal: after the removal
\* of item index N of a list the graph has no connection whose target or
\* source socket belongs to that index, and after a later add every argument
\* of the regenerated item N resolves to its own local value.
C30_NoStaleConnectionAfterRemove ==
  [][\A e \in Removable :
       Removes(e) =>
         /\ ItemConnections(graph', e, ListCount(e) - 1) = {}
         /\ \A k \in RegrownKeys(graph', e, ListCount(e) - 1) :
              ResolvesLocally(Regrown(graph', e), RegrownNode(graph', e), k)]_vars

\* C30, what the code does: the removal deletes the values of item N and
\* leaves every connection in place; after a later add the arguments of
\* item N are resolved again, none has a value of its own, and an argument
\* resolves to its own (missing) value exactly when no connection made
\* before the removal enters its socket.
C30_RemoveKeepsTheConnections ==
  [][\A e \in Removable :
       Removes(e) =>
         /\ graph'.connections = graph.connections
         /\ ~HasItemKeys(ValuesIn(graph', e.nodeId),
                         e.control.key \o Us \o Ix(ListCount(e) - 1) \o Us)
         /\ RegrownKeys(graph', e, ListCount(e) - 1) # {}
         /\ \A k \in RegrownKeys(graph', e, ListCount(e) - 1) :
              /\ ValGet(RegrownNode(graph', e).values, k) = Undef
              /\ ResolvesLocally(Regrown(graph', e), RegrownNode(graph', e), k)
                   <=> ConnectionsTo(graph', e.nodeId \o Dash \o k) = Null]_vars

\* C30, its case: a list whose next item has no value stored and a
\* connection made into a socket of that item before it was removed
C30_StaleConnectionAfterRemove ==
  \E e \in Lists :
    /\ ops > 1
    /\ ~HasItemKeys(e.values, NewItemPrefix(e))
    /\ \E c \in ItemConnections(graph, e, ListCount(e)) :
         c.toNode = e.nodeId /\ c.fromNode # e.nodeId
====
